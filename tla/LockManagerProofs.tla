--------------------------- MODULE LockManagerProofs ---------------------------
(******************************************************************************)
(* The commit protocol keeps the invariant, and what follows from it: stable  *)
(* snapshots, serializable commits, a frozen past, real-time order and the    *)
(* refinement of SerialDatabase.                                              *)
(******************************************************************************)
EXTENDS LockManagerInv

--------------------------------------------------------------------------------
(* The invariant, and what follows from it *)

\* A step that moves the clocks or the retention period only keeps the invariant
\* when it keeps the part about the clock.
LEMMA ClockFrame ==
  ASSUME Inv, TypeOK', ClockInv', PendingInv',
         UNCHANGED <<commitMu, pending, lastCommit, versions, pc, snapshot, readSet,
                     observed, buffer, commitTs, committed>>
  PROVE  Inv'
<1>1. MutexInv' /\ CommittedInv'
  BY Zenon DEF Inv, MutexInv, CommittedInv
<1>2. VersionsInv'
  BY Zenon DEF Inv, VersionsInv
<1>3. FlushInv'
  BY Zenon DEF Inv, FlushInv, ValueAt
<1>4. SnapshotInv'
  BY Zenon DEF Inv, SnapshotInv, Settled, NoPendingUpTo
<1>5. ReadInv'
  BY DEF Inv, ReadInv, Settled, Missed, ValueAt
<1>6. ValidatedInv'
  BY Zenon DEF Inv, ValidatedInv
<1>7. Serializable' /\ CommitIsItsWrites'
  BY Zenon DEF Inv, Serializable, CommitIsItsWrites, ValueAt
<1> QED BY Zenon, <1>1, <1>2, <1>3, <1>4, <1>5, <1>6, <1>7 DEF Inv

\* Every step of the protocol keeps the invariant.
LEMMA InvStep == Inv /\ [Next]_lmVars => Inv'
<1> SUFFICES ASSUME Inv, [Next]_lmVars PROVE Inv'
  BY Zenon
<1>0. TypeOK /\ TypeOK' /\ lastDispensed \in Time
  BY Zenon, TypeStep DEF Inv, TypeOK
<1>1. CASE Tick
  <2>1. UNCHANGED <<lastDispensed, commitMu, pending, lastCommit, versions, pc,
                    snapshot, readSet, observed, buffer, commitTs, committed>>
    BY Zenon, <1>1 DEF Tick, managerVars, handleVars
  <2>2. ClockInv' /\ PendingInv'
    BY Zenon, <2>1 DEF Inv, ClockInv, PendingInv
  <2> QED BY Zenon, <1>0, <2>1, <2>2, ClockFrame
<1>6. CASE Dispense
  <2>1. /\ lastDispensed' \in Time /\ lastDispensed' > lastDispensed
        /\ UNCHANGED <<commitMu, pending, lastCommit, versions, pc, snapshot, readSet,
                       observed, buffer, commitTs, committed>>
    BY Zenon, <1>0, <1>6, NowIsLater DEF Dispense, managerVars, handleVars
  <2>2. lastDispensed \in Int /\ lastDispensed' \in Int /\ lastCommit \in Int
    BY <1>0, <2>1, MaxTimeAssumption DEF TypeOK, Time
  <2>3. \A p \in Committer : /\ snapshot[p] # None => snapshot[p] \in Int
                             /\ pc[p] = "flushing" => commitTs[p] \in Int
    BY <1>0, MaxTimeAssumption DEF TypeOK, Time
  <2>4. ClockInv'
    <3>1. ClockInv
      BY Zenon DEF Inv
    <3>2. \A p \in Committer : snapshot[p] # None => snapshot[p] <= lastDispensed'
      <4> TAKE p \in Committer
      <4> HAVE snapshot[p] # None
      <4>1. snapshot[p] <= lastDispensed /\ snapshot[p] \in Int
        BY Zenon, <2>3, <3>1 DEF ClockInv
      <4> QED BY <2>1, <2>2, <4>1
    <3>3. lastCommit <= lastDispensed'
      BY <2>1, <2>2, <3>1 DEF ClockInv
    <3> QED BY Zenon, <2>1, <3>2, <3>3 DEF ClockInv
  <2>5. PendingInv'
    <3>1. PendingInv
      BY Zenon DEF Inv
    <3>2. ASSUME NEW p \in Committer, pc[p] = "flushing"
          PROVE  /\ commitTs[p] \in pending /\ commitTs[p] > lastCommit
                 /\ commitTs[p] <= lastDispensed'
      <4>1. /\ commitTs[p] \in pending /\ commitTs[p] > lastCommit
            /\ commitTs[p] <= lastDispensed /\ commitTs[p] \in Int
        BY Zenon, <2>3, <3>1, <3>2 DEF PendingInv
      <4> QED BY <2>1, <2>2, <4>1
    <3> QED BY Zenon, <2>1, <3>1, <3>2 DEF PendingInv
  <2> QED BY Zenon, <1>0, <2>1, <2>4, <2>5, ClockFrame
<1>7. ASSUME NEW d \in Ddl, SetVersionRetentionPeriod(d) PROVE Inv'
  <2>1. UNCHANGED <<lastDispensed, commitMu, pending, lastCommit, versions, pc,
                    snapshot, readSet, observed, buffer, commitTs, committed>>
    BY Zenon, <1>7 DEF SetVersionRetentionPeriod, clockVars, managerVars, handleVars
  <2>2. ClockInv' /\ PendingInv'
    BY Zenon, <2>1 DEF Inv, ClockInv, PendingInv
  <2> QED BY Zenon, <1>0, <2>1, <2>2, ClockFrame
<1>2. ASSUME NEW t \in Txn, TxnStep(t) PROVE Inv'
  <2>0. t \in Committer
    BY Zenon DEF Committer
  <2>1. CASE PickSnapshot(t)
    BY Zenon, <1>0, <2>1, PickSnapshotInv
  <2>2. CASE SnapshotDue(t)
    <3>1. /\ pc[t] = "picking"
          /\ \A q \in Committer : pc'[q] = IF q = t THEN "due" ELSE pc[q]
      BY Zenon, <1>0, <2>0, <2>2, GotoStep DEF SnapshotDue
    <3>2. UNCHANGED <<lastDispensed, commitMu, pending, lastCommit, versions, snapshot,
                      readSet, observed, buffer, commitTs, committed>>
      BY Zenon, <2>2 DEF SnapshotDue, clockVars, managerVars, handleVars
    <3>3. MutexInv'
      BY Zenon, <3>1, <3>2 DEF Inv, MutexInv
    <3> QED BY Zenon, <1>0, <2>0, <3>1, <3>2, <3>3, LabelStep DEF Inv
  <2>3. CASE SnapshotSafe(t)
    <3>1. /\ pc[t] = "due"
          /\ \A q \in Committer : pc'[q] = IF q = t THEN "ready" ELSE pc[q]
      BY Zenon, <1>0, <2>0, <2>3, GotoStep DEF SnapshotSafe
    <3>2. /\ UNCHANGED <<lastDispensed, commitMu, pending, lastCommit, versions,
                         snapshot, readSet, observed, buffer, commitTs, committed>>
          /\ NoPendingUpTo(snapshot[t])
      BY Zenon, <2>3 DEF SnapshotSafe, clockVars, managerVars, handleVars
    <3>3. MutexInv'
      BY Zenon, <3>1, <3>2 DEF Inv, MutexInv
    <3> QED BY Zenon, <1>0, <2>0, <3>1, <3>2, <3>3, LabelStep DEF Inv
  <2>4. ASSUME NEW K \in SUBSET Key, ReadRows(t, K) PROVE Inv'
    BY Zenon, <1>0, <2>4, ReadRowsInv
  <2>5. ASSUME NEW k \in Key, NEW w \in {t, Absent, Touch}, BufferWrite(t, k, w)
        PROVE Inv'
    <3>1. /\ pc[t] = "ready"
          /\ \A q \in Committer : pc'[q] = IF q = t THEN "ready" ELSE pc[q]
          /\ UNCHANGED <<lastDispensed, commitMu, pending, lastCommit, versions, pc,
                         snapshot, readSet, observed, commitTs, committed>>
      BY Zenon, <2>5 DEF BufferWrite, clockVars, managerVars
    <3>2. \A q \in Committer \ {t} : buffer'[q] = buffer[q]
      BY Zenon, <1>0, <2>0, <2>5 DEF BufferWrite, TypeOK
    <3>3. MutexInv'
      BY Zenon, <3>1 DEF Inv, MutexInv
    <3> QED BY Zenon, <1>0, <2>0, <3>1, <3>2, <3>3, LabelStep DEF Inv
  <2>6. CASE UnlockAll(t)
    <3>1. /\ pc[t] = "ready" /\ Forget(t)
          /\ UNCHANGED <<lastDispensed, commitMu, pending, lastCommit, versions, pc,
                         commitTs, committed>>
      BY Zenon, <2>6 DEF UnlockAll, clockVars, managerVars
    <3>2. ClockInv' /\ SnapshotInv' /\ ReadInv' /\ ValidatedInv'
      BY Zenon, <2>0, <3>1, ForgetKeeps
    <3>3. \A q \in Committer \ {t} : buffer'[q] = buffer[q]
      BY Zenon, <1>0, <2>0, <3>1, ForgetStep
    <3>4. /\ PendingInv' /\ VersionsInv' /\ FlushInv'
          /\ CommittedInv' /\ Serializable' /\ CommitIsItsWrites'
      BY <1>0, <2>0, <3>1, <3>3, HandleFrame, MaxTimeAssumption DEF Time
    <3>5. MutexInv'
      BY Zenon, <3>1 DEF Inv, MutexInv
    <3> QED BY Zenon, <1>0, <3>2, <3>4, <3>5 DEF Inv
  <2>7. CASE CallCommit(t)
    <3>1. /\ pc[t] = "ready"
          /\ \A q \in Committer : pc'[q] = IF q = t THEN "entering" ELSE pc[q]
      BY Zenon, <1>0, <2>0, <2>7, GotoStep DEF CallCommit
    <3>2. UNCHANGED <<lastDispensed, commitMu, pending, lastCommit, versions, snapshot,
                      readSet, observed, buffer, commitTs, committed>>
      BY Zenon, <2>7 DEF CallCommit, clockVars, managerVars, handleVars
    <3>3. MutexInv'
      BY Zenon, <3>1, <3>2 DEF Inv, MutexInv
    <3> QED BY Zenon, <1>0, <2>0, <3>1, <3>2, <3>3, LabelStep DEF Inv
  <2>8. CASE ValidateReadSet(t)
    <3>1. /\ pc[t] = "validating"
          /\ \A q \in Committer : pc'[q] = IF q = t THEN "reserving" ELSE pc[q]
      BY Zenon, <1>0, <2>0, <2>8, GotoStep DEF ValidateReadSet
    <3>2. UNCHANGED <<lastDispensed, commitMu, pending, lastCommit, versions, snapshot,
                      readSet, observed, buffer, commitTs, committed>>
      BY Zenon, <2>8 DEF ValidateReadSet, clockVars, managerVars, handleVars
    <3>3. \A k \in readSet[t], s \in Time :
            snapshot[t] # None /\ s > snapshot[t] => versions[k][s] = None
      BY Zenon, <2>8 DEF ValidateReadSet, ReadSetIsStale, HasVersionsAfter
    <3>4. MutexInv'
      BY Zenon, <3>1, <3>2 DEF Inv, MutexInv
    <3> QED BY Zenon, <1>0, <2>0, <3>1, <3>2, <3>3, <3>4, LabelStep DEF Inv
  <2>9. CASE AbortCommit(t)
    <3>1. /\ pc[t] = "validating"
          /\ \A q \in Committer : pc'[q] = IF q = t THEN "ready" ELSE pc[q]
      BY Zenon, <1>0, <2>0, <2>9, GotoStep DEF AbortCommit
    <3>2. /\ UNCHANGED <<lastDispensed, pending, lastCommit, versions, commitTs,
                         committed>>
          /\ commitMu' = None /\ Forget(t)
      BY Zenon, <2>9 DEF AbortCommit, clockVars
    <3>3. ClockInv' /\ SnapshotInv' /\ ReadInv' /\ ValidatedInv'
      BY Zenon, <2>0, <3>1, <3>2, ForgetKeeps
    <3>4. \A q \in Committer \ {t} : buffer'[q] = buffer[q]
      BY Zenon, <1>0, <2>0, <3>2, ForgetStep
    <3>5. /\ PendingInv' /\ VersionsInv' /\ FlushInv'
          /\ CommittedInv' /\ Serializable' /\ CommitIsItsWrites'
      BY <1>0, <2>0, <3>1, <3>2, <3>4, HandleFrame, MaxTimeAssumption DEF Time
    <3>6. MutexInv'
      BY Zenon, <2>0, <3>1, <3>2, ActorsAssumption DEF Inv, MutexInv
    <3> QED BY Zenon, <1>0, <3>3, <3>5, <3>6 DEF Inv
  <2> QED BY Zenon, <1>2, <2>1, <2>2, <2>3, <2>4, <2>5, <2>6, <2>7, <2>8, <2>9 DEF TxnStep
<1>3. ASSUME NEW d \in Ddl, CallSchemaChange(d) PROVE Inv'
  <2>0. d \in Committer
    BY Zenon DEF Committer
  <2>1. /\ pc[d] = "ready"
        /\ \A q \in Committer : pc'[q] = IF q = d THEN "entering" ELSE pc[q]
    BY Zenon, <1>0, <1>3, <2>0, GotoStep DEF CallSchemaChange
  <2>2. UNCHANGED <<lastDispensed, commitMu, pending, lastCommit, versions, snapshot,
                    readSet, observed, commitTs, committed>>
    BY Zenon, <1>3 DEF CallSchemaChange, clockVars, managerVars
  <2>3. \A q \in Committer \ {d} : buffer'[q] = buffer[q]
    BY Zenon, <1>0, <1>3, <2>0 DEF CallSchemaChange, TypeOK
  <2>4. MutexInv'
    BY Zenon, <2>1, <2>2 DEF Inv, MutexInv
  <2> QED BY Zenon, <1>0, <2>0, <2>1, <2>2, <2>3, <2>4, LabelStep DEF Inv
<1>4. ASSUME NEW p \in Committer, CommitStep(p) PROVE Inv'
  <2>1. CASE EnterCommit(p)
    <3> DEFINE to == IF p \in Txn THEN "validating" ELSE "reserving"
    <3>1. /\ pc[p] = "entering"
          /\ \A q \in Committer : pc'[q] = IF q = p THEN to ELSE pc[q]
      BY Zenon, <1>0, <2>1, GotoStep DEF EnterCommit
    <3>2. /\ UNCHANGED <<lastDispensed, pending, lastCommit, versions, snapshot,
                         readSet, observed, buffer, commitTs, committed>>
          /\ commitMu = None /\ commitMu' = p
      BY Zenon, <2>1 DEF EnterCommit, clockVars, handleVars
    <3>3. MutexInv'
      BY Zenon, <3>1, <3>2, ActorsAssumption DEF Inv, MutexInv
    <3>4. to = "reserving" => readSet[p] = {}
      BY Zenon DEF Inv, ReadInv, Committer
    <3>5. to \in {"validating", "reserving"}
      BY Zenon
    <3> HIDE DEF to
    <3> QED BY Zenon, <1>0, <3>1, <3>2, <3>3, <3>4, <3>5, LabelStep DEF Inv
  <2>2. CASE ReserveCommitTimestamp(p)
    BY Zenon, <1>0, <2>2, ReserveInv
  <2>3. ASSUME NEW k \in Key, Flush(p, k) PROVE Inv'
    BY Zenon, <1>0, <2>3, FlushKeepsInv
  <2>4. CASE MarkCommitted(p)
    BY Zenon, <1>0, <2>4, MarkCommittedInv
  <2>5. CASE LeaveCommit(p)
    <3>1. /\ pc[p] = "leaving"
          /\ \A q \in Committer : pc'[q] = IF q = p THEN "done" ELSE pc[q]
      BY Zenon, <1>0, <2>5, GotoStep DEF LeaveCommit
    <3>2. /\ UNCHANGED <<lastDispensed, pending, lastCommit, versions, commitTs,
                         committed>>
          /\ commitMu' = None /\ Forget(p)
      BY Zenon, <2>5 DEF LeaveCommit, clockVars
    <3>3. ClockInv' /\ SnapshotInv' /\ ReadInv' /\ ValidatedInv'
      BY Zenon, <3>1, <3>2, ForgetKeeps
    <3>4. \A q \in Committer \ {p} : buffer'[q] = buffer[q]
      BY Zenon, <1>0, <3>2, ForgetStep
    <3>5. MutexInv'
      BY Zenon, <3>1, <3>2, ActorsAssumption DEF Inv, MutexInv
    <3>6. PendingInv' /\ VersionsInv' /\ CommittedInv'
      BY <3>1, <3>2 DEF Inv, PendingInv, VersionsInv, CommittedInv
    <3>7. FlushInv'
      <4> SUFFICES ASSUME NEW q \in Committer, NEW k \in Key, pc'[q] = "flushing",
                          versions'[k][commitTs'[q]] # None
                   PROVE  /\ buffer'[q][k] # None
                          /\ versions'[k][commitTs'[q]] =
                               AfterWrite(ValueAt(k, commitTs[q] - 1)', buffer'[q][k])
        BY Zenon, <3>2 DEF FlushInv
      <4>1. q # p /\ pc[q] = "flushing"
        BY Zenon, <3>1
      <4>2. buffer'[q] = buffer[q]
        BY Zenon, <3>4, <4>1
      <4>3. /\ buffer[q][k] # None
            /\ versions[k][commitTs[q]] = AfterWrite(ValueAt(k, commitTs[q] - 1), buffer[q][k])
        BY Zenon, <3>2, <4>1 DEF Inv, FlushInv
      <4>4. ValueAt(k, commitTs[q] - 1)' = ValueAt(k, commitTs[q] - 1)
        BY Zenon, <3>2 DEF ValueAt
      <4> QED BY Zenon, <3>2, <4>2, <4>3, <4>4
    <3>8. Serializable' /\ CommitIsItsWrites'
      BY Zenon, <3>2 DEF Inv, Serializable, CommitIsItsWrites, ValueAt
    <3> QED BY Zenon, <1>0, <3>3, <3>5, <3>6, <3>7, <3>8 DEF Inv
  <2> QED BY Zenon, <1>4, <2>1, <2>2, <2>3, <2>4, <2>5 DEF CommitStep
<1>5. CASE UNCHANGED lmVars
  <2>1. UNCHANGED <<lastDispensed, commitMu, pending, lastCommit, versions, pc,
                    snapshot, readSet, observed, buffer, commitTs, committed>>
    BY Zenon, <1>5 DEF lmVars, clockVars, managerVars, handleVars
  <2>2. ClockInv' /\ PendingInv'
    BY Zenon, <2>1 DEF Inv, ClockInv, PendingInv
  <2> QED BY Zenon, <1>0, <2>1, <2>2, ClockFrame
<1> QED BY Zenon, <1>1, <1>2, <1>3, <1>4, <1>5, <1>6, <1>7 DEF Next, Idle

\* The invariant holds in every reachable state.
THEOREM Invariance == Spec => []Inv
<1>1. Init => Inv
  <2> SUFFICES ASSUME Init PROVE Inv
    BY Zenon
  <2>1. TypeOK
    BY Zenon, TypeInit
  <2>2. MutexInv /\ ClockInv /\ PendingInv /\ VersionsInv /\ FlushInv
    BY ActorsAssumption, MaxTimeAssumption
       DEF Init, MutexInv, ClockInv, PendingInv, VersionsInv, FlushInv, Time
  <2>3. SnapshotInv /\ ReadInv /\ ValidatedInv
    BY Zenon DEF Init, SnapshotInv, ReadInv, ValidatedInv, Settled, NotRead, Committer
  <2>4. CommittedInv /\ Serializable /\ CommitIsItsWrites
    BY Zenon DEF Init, CommittedInv, Serializable, CommitIsItsWrites
  <2> QED BY Zenon, <2>1, <2>2, <2>3, <2>4 DEF Inv
<1> QED BY <1>1, InvStep, PTL DEF Spec

\* What a transaction reads stays what its snapshot holds, for every number of
\* transactions, schema changes and rows (LockHandle::SnapshotTimestamp and
\* WaitForSafeRead).
THEOREM SnapshotsAreStable == Spec => []SnapshotIsStable
<1>1. Inv => SnapshotIsStable
  BY DEF Inv, ReadInv, Missed, HasVersionsAfter, SnapshotIsStable, Committer
<1> QED BY <1>1, Invariance, PTL

\* Every commit read what the database held just before its timestamp
\* (LockHandle::Commit validates the read set inside the critical section).
THEOREM CommitsAreSerializable == Spec => []Serializable
<1>1. Inv => Serializable
  BY Zenon DEF Inv
<1> QED BY <1>1, Invariance, PTL

\* Every commit's timestamp holds exactly its writes, forever.
THEOREM CommitsAreTheirWrites == Spec => []CommitIsItsWrites
<1>1. Inv => CommitIsItsWrites
  BY Zenon DEF Inv
<1> QED BY <1>1, Invariance, PTL

\* A step writes versions at the timestamp of the flushing commit only.
LEMMA OnlyFlushWrites ==
  ASSUME Inv, [Next]_lmVars
  PROVE  \/ UNCHANGED <<versions, oldest>>
         \/ \E p \in Committer, k \in Key : Flush(p, k)
BY Zenon DEF Next, Idle, TxnStep, CommitStep, Tick, Dispense, PickSnapshot, SnapshotDue,
       SnapshotSafe, ReadRows, BufferWrite, UnlockAll, CallCommit,
       SetVersionRetentionPeriod, gcVars, CallSchemaChange, ValidateReadSet, AbortCommit, EnterCommit,
       ReserveCommitTimestamp, MarkCommitted, LeaveCommit, lmVars

\* What a read at s returns does not change once the clock has passed s and no
\* commit at or before s is pending, until it is older than the retention period
\* (WaitForSafeRead, RemoveExpiredVersions).
THEOREM PastIsFrozen == Spec => ThePastIsFrozen
<1> DEFINE Frozen ==
      \A s \in 0..lastDispensed, k \in Key :
        NoPendingUpTo(s) /\ lastDispensed <= s + retention
          => StoredAt(k, s)' = StoredAt(k, s)
<1>1. Inv /\ [Next]_lmVars => Frozen
  <2> SUFFICES ASSUME Inv, [Next]_lmVars, NEW s \in 0..lastDispensed,
                      NEW k \in Key, NoPendingUpTo(s), lastDispensed <= s + retention
               PROVE  StoredAt(k, s)' = StoredAt(k, s)
    BY Zenon
  <2>0. s \in Time /\ lastDispensed \in Time
    BY MaxTimeAssumption DEF Inv, TypeOK, Time
  <2>1. CASE UNCHANGED <<versions, oldest>>
    BY Zenon, <2>1 DEF StoredAt, ValueAt
  <2>2. ASSUME NEW p \in Committer, NEW j \in Key, Flush(p, j)
        PROVE  StoredAt(k, s)' = StoredAt(k, s)
    <3>1. /\ commitTs[p] \in Time /\ commitTs[p] > s /\ commitTs[p] <= lastDispensed
          /\ versions \in [Key -> [Time -> Value \cup {None}]]
      BY Zenon, <2>2 DEF Inv, PendingInv, TypeOK, NoPendingUpTo, Flush
    <3>2. \A u \in Time : u # commitTs[p] => versions'[k][u] = versions[k][u]
      BY Zenon, <2>2, <3>1 DEF Flush
    <3>4. s < oldest'[k] <=> s < oldest[k]
      <4>1. CASE k = j
        <5>1. /\ oldest[k] \in Time /\ retention \in Nat
              /\ oldest'[k] = OldestLeft(k, commitTs[p])
          BY Zenon, <2>2, <4>1, RetentionAssumption DEF Inv, TypeOK, Flush
        <5>2. /\ oldest'[k] \in Time
              /\ oldest'[k] = oldest[k] \/ oldest'[k] <= commitTs[p] - retention
          BY Zenon, <3>1, <5>1, OldestLeftType DEF Inv
        <5>3. oldest[k] <= oldest'[k]
          BY Zenon, <3>1, <5>1, OldestLeftType DEF Inv
        <5>4. \A z \in Time : z \in Int
          BY MaxTimeAssumption DEF Time
        <5>5. /\ s \in Int /\ lastDispensed \in Int /\ commitTs[p] \in Int
              /\ oldest[k] \in Int /\ oldest'[k] \in Int
          BY Zenon, <2>0, <3>1, <5>1, <5>2, <5>4
        <5> QED BY <3>1, <5>1, <5>2, <5>3, <5>5
      <4>2. CASE k # j
        BY Zenon, <2>2, <4>2 DEF Flush, Inv, TypeOK
      <4> QED BY Zenon, <4>1, <4>2
    <3>5. \A u \in 0..s : versions'[k][u] = versions[k][u]
      BY <2>0, <3>1, <3>2, MaxTimeAssumption DEF Time
    <3>6. ValueAt(k, s)' = ValueAt(k, s)
      BY Zenon, <2>0, <3>5, VisibleAgrees DEF ValueAt
    <3> QED BY Zenon, <3>4, <3>6 DEF StoredAt
  <2> QED BY Zenon, <2>1, <2>2, OnlyFlushWrites
<1>2. Inv /\ [Next]_lmVars => [Frozen]_lmVars
  BY Zenon, <1>1
<1> HIDE DEF Frozen
<1>3. Spec => [][Frozen]_lmVars
  BY <1>2, Invariance, PTL DEF Spec
<1> QED BY Zenon, <1>3 DEF Frozen, ThePastIsFrozen

\* A transaction's snapshot is later than every commit completed before it, even
\* when the system clock steps back (Clock::Now).
THEOREM RealTimeOrder == Spec => SnapshotCoversCompletedCommits
<1> DEFINE Covers ==
      \A t \in Txn, p \in Committer :
        snapshot[t] = None /\ snapshot'[t] # None /\ committed[p] # None
          => committed[p].ts < snapshot'[t]
<1>1. Inv /\ [Next]_lmVars => Covers
  <2> SUFFICES ASSUME Inv, [Next]_lmVars, NEW t \in Txn, NEW p \in Committer,
                      snapshot[t] = None, snapshot'[t] # None, committed[p] # None
               PROVE  committed[p].ts < snapshot'[t]
    BY Zenon
  <2> t \in Committer
    BY Zenon DEF Committer
  <2>1. PickSnapshot(t)
    BY ZenonT(30) DEF Inv, TypeOK, Next, Idle, TxnStep, CommitStep, Tick, Dispense, PickSnapshot,
           SetVersionRetentionPeriod, SnapshotDue, SnapshotSafe, ReadRows, BufferWrite, UnlockAll, Forget,
           CallCommit, CallSchemaChange, ValidateReadSet, AbortCommit,
           EnterCommit, ReserveCommitTimestamp, Flush, MarkCommitted,
           LeaveCommit, lmVars, handleVars
  <2>2. snapshot'[t] = NowValue /\ NowValue \in Time /\ NowValue > lastDispensed
    BY Zenon, <2>1, NowIsLater DEF Inv, TypeOK, PickSnapshot
  <2>3. committed[p].ts \in 1..lastCommit /\ lastCommit <= lastDispensed
    BY Zenon DEF Inv, CommittedInv, ClockInv
  <2> QED BY <2>2, <2>3, MaxTimeAssumption DEF Inv, TypeOK, Time
<1>2. Inv /\ [Next]_lmVars => [Covers]_lmVars
  BY Zenon, <1>1
<1> HIDE DEF Covers
<1>3. Spec => [][Covers]_lmVars
  BY <1>2, Invariance, PTL DEF Spec
<1> QED BY Zenon, <1>3 DEF Covers, SnapshotCoversCompletedCommits

--------------------------------------------------------------------------------
(* The protocol implements SerialDatabase *)

\* Marking a commit complete is a transaction of the serial database.
LEMMA MarkIsATransaction ==
  ASSUME Inv, Inv', NEW p \in Committer, MarkCommitted(p)
  PROVE  Serial!SerialNext
<1> DEFINE c == commitTs[p]
           r == committed'[p]
<1>0. /\ pc[p] = "flushing" /\ c \in Time /\ lastCommit \in Time
      /\ committed \in [Committer -> Serial!Result \cup {None}]
      /\ committed' \in [Committer -> Serial!Result \cup {None}]
  BY Zenon DEF Inv, TypeOK, MarkCommitted, Goto
<1>1. /\ c - 1 \in Time /\ c > lastCommit
      /\ \A q \in Committer : pc[q] = "flushing" => q = p
  <2>1. c > lastCommit
    BY <1>0, Zenon DEF Inv, PendingInv
  <2>2. c - 1 \in Time
    BY <1>0, <2>1, MaxTimeAssumption DEF Time
  <2>3. \A q \in Committer : pc[q] = "flushing" => q = p
    BY Zenon, <1>0 DEF Inv, MutexInv
  <2> QED BY Zenon, <2>1, <2>2, <2>3
<1>2. lastCommit' = c /\ versions' = versions
  BY Zenon, <1>0, <1>1 DEF MarkCommitted
<1>3. /\ r = [ts |-> c, reads |-> observed[p], writes |-> buffer[p]]
      /\ committed' = [committed EXCEPT ![p] = r]
  BY Zenon, <1>0 DEF MarkCommitted
<1>4. /\ r.ts = c /\ r.writes = buffer[p] /\ r.reads = observed[p]
      /\ r \in Serial!Result /\ committed[p] = None
  <2>1. r # None
    BY Zenon, <1>2 DEF Inv, CommittedInv, MarkCommitted, Goto, TypeOK
  <2>2. committed[p] = None
    BY <1>0, Zenon DEF Inv, CommittedInv
  <2>3. r \in Serial!Result
    BY Zenon, <1>0, <2>1
  <2> QED BY <1>3, <2>2, <2>3
<1> HIDE DEF c, r
<1>5. ASSUME NEW k \in Key PROVE ValueAt(k, lastCommit) = ValueAt(k, c - 1)
  <2>0. VersionsInv
    BY Zenon DEF Inv
  <2>1. ASSUME NEW u \in Time, lastCommit < u, u <= c - 1 PROVE versions[k][u] = None
    <3>1. u > lastCommit /\ u # c
      BY <1>0, <1>1, <2>1, MaxTimeAssumption DEF Time
    <3> QED BY Zenon, <1>1, <2>0, <3>1 DEF VersionsInv, c
  <2>2. lastCommit <= c - 1
    BY <1>0, <1>1, MaxTimeAssumption DEF Time
  <2> QED BY <1>0, <1>1, <2>1, <2>2, VisibleUnchanged DEF ValueAt
<1>6. ASSUME NEW k \in Key
      PROVE  /\ r.reads[k] \in {None, ValueAt(k, c - 1)}
             /\ ValueAt(k, c) = AfterWrite(ValueAt(k, c - 1), r.writes[k])
  BY Zenon, <1>4, MarkedCommit DEF c
<1>7. \A k \in Key : ValueAt(k, lastCommit)' = ValueAt(k, c)
  BY Zenon, <1>2 DEF ValueAt
<1>8. Serial!Transact(p, r)
  BY Zenon, <1>1, <1>2, <1>3, <1>4, <1>5, <1>6, <1>7 DEF Serial!Transact, AfterWrite
<1> QED BY Zenon, <1>4, <1>8 DEF Serial!SerialNext, r

\* A flush does not change what is visible at the last commit timestamp.
LEMMA FlushIsAStutter ==
  ASSUME Inv, NEW p \in Committer, NEW k \in Key, Flush(p, k)
  PROVE  UNCHANGED Serial!sdVars
<1>1. /\ commitTs[p] \in Time /\ commitTs[p] > lastCommit /\ lastCommit \in Time
      /\ UNCHANGED <<lastCommit, committed>>
      /\ versions \in [Key -> [Time -> Value \cup {None}]]
  BY Zenon DEF Inv, PendingInv, TypeOK, Flush, managerVars
<1>2. ASSUME NEW j \in Key PROVE ValueAt(j, lastCommit)' = ValueAt(j, lastCommit)
  <2>0. versions' = [versions EXCEPT ![k][commitTs[p]] =
                       FlushedVersion(k, commitTs[p], buffer[p][k])]
    BY Zenon DEF Flush
  <2>a. \A u \in 0..lastCommit : u \in Time /\ u # commitTs[p]
    BY <1>1, MaxTimeAssumption DEF Time
  <2>b. \A u \in Time : u # commitTs[p] => versions'[j][u] = versions[j][u]
    BY Zenon, <1>1, <2>0
  <2>1. \A u \in 0..lastCommit : versions'[j][u] = versions[j][u]
    BY Zenon, <2>a, <2>b
  <2> QED BY Zenon, <1>1, <2>1, VisibleAgrees DEF ValueAt
<1> QED BY Zenon, <1>1, <1>2 DEF Serial!sdVars

\* The protocol implements the serial database: MarkCommitted is the serial
\* transaction and every other step leaves the serial database as it is.
THEOREM Refinement == Spec => ImplementsSerialDatabase
<1>1. Init => Serial!SerialInit
  <2> SUFFICES ASSUME Init, NEW k \in Key
               PROVE  ValueAt(k, 0) = IF k \in Copied THEN Original ELSE Absent
    BY DEF Init, Serial!SerialInit
  <2>0. 0 \in Time
    BY MaxTimeAssumption DEF Time
  <2>1. CASE k \in Copied
    <3>1. versions[k][0] = Original /\ Original # None
      BY Zenon, <2>0, <2>1, CopyAssumption DEF Init
    <3> QED BY Zenon, <2>0, <2>1, <3>1, VisibleNewest DEF ValueAt
  <2>2. CASE k \notin Copied
    <3>1. VersionsUpTo(versions[k], 0) = {}
      BY <2>0, <2>2 DEF Init, VersionsUpTo
    <3> QED BY Zenon, <2>2, <3>1 DEF ValueAt, Visible
  <2> QED BY Zenon, <2>1, <2>2
<1>2. Inv /\ Inv' /\ [Next]_lmVars => [Serial!SerialNext]_(Serial!sdVars)
  <2> SUFFICES ASSUME Inv, Inv', [Next]_lmVars
               PROVE  Serial!SerialNext \/ UNCHANGED Serial!sdVars
    BY Zenon
  <2>1. CASE UNCHANGED <<versions, lastCommit, committed>>
    BY Zenon, <2>1 DEF ValueAt, Serial!sdVars
  <2>2. \/ UNCHANGED <<versions, lastCommit, committed>>
        \/ \E p \in Committer : MarkCommitted(p)
        \/ \E p \in Committer, k \in Key : Flush(p, k)
    BY Zenon DEF Next, Idle, TxnStep, CommitStep, Tick, Dispense, PickSnapshot, SnapshotDue,
           SnapshotSafe, ReadRows, BufferWrite, UnlockAll, CallCommit,
           SetVersionRetentionPeriod, CallSchemaChange, ValidateReadSet, AbortCommit, EnterCommit,
           ReserveCommitTimestamp, LeaveCommit, lmVars, managerVars
  <2> QED BY Zenon, <2>1, <2>2, MarkIsATransaction, FlushIsAStutter
<1> QED BY <1>1, <1>2, Invariance, PTL DEF Spec, ImplementsSerialDatabase, Serial!SerialSpec
================================================================================
