----------------------------- MODULE LockManagerInv -----------------------------
(******************************************************************************)
(* Proofs about the commit protocol of LockManager, for any number of         *)
(* transactions, schema changes and rows, any bound on time, and a system     *)
(* clock that may or may not step back.  This module has the lemmas on rows,  *)
(* the type invariant, the inductive invariant and the actions that change    *)
(* what it is about; LockManagerProofs draws the conclusions.                 *)
(******************************************************************************)
EXTENDS LockManager, TLAPS

LOCAL INSTANCE WellFoundedInduction

--------------------------------------------------------------------------------
(* Rows: what a read at a timestamp finds. *)

Row == [Time -> Value \cup {None}]

\* A non-empty set of timestamps up to t has a greatest element.
LEMMA MaxProperty ==
  ASSUME NEW t \in Nat, NEW S \in SUBSET (0..t), S # {}
  PROVE  /\ Max(S) \in S
         /\ \A s \in S : s <= Max(S)
<1> DEFINE T == {t - s : s \in S}
           R == OpToRel(<, Nat)
<1>1. T \in SUBSET Nat
  <2>1. ASSUME NEW s \in S PROVE t - s \in Nat
    <3>1. s \in 0..t
      BY Zenon
    <3> QED BY <3>1
  <2> QED BY Zenon, <2>1
<1>0. T # {}
  <2>1. PICK s \in S : TRUE
    BY Zenon
  <2>2. t - s \in T
    BY Zenon, <2>1
  <2> QED BY Zenon, <2>2
<1>2. \E x \in T : \A y \in T : ~(<<y, x>> \in R)
  <2> HIDE DEF T
  <2> QED BY <1>0, <1>1, NatLessThanWellFounded, WFMin, Zenon
<1>3. \E x \in S : \A y \in S : x >= y
  <2>1. PICK x \in T : \A y \in T : ~(<<y, x>> \in R)
    BY <1>2, Zenon
  <2>2. PICK m \in S : x = t - m
    BY <2>1, Zenon
  <2>3. ASSUME NEW y \in S PROVE m >= y
    <3>1. /\ t - y \in T
          /\ t - y \in Nat
          /\ x \in Nat
      BY <2>2
    <3>2. ~(t - y < x)
      BY <2>1, <3>1, Zenon DEF OpToRel
    <3> QED BY <2>2, <3>2
  <2> QED BY Zenon, <2>3
<1> QED BY <1>3, Zenon DEF Max

\* A non-empty set of times has a least element.
LEMMA MinProperty ==
  ASSUME NEW S \in SUBSET Nat, S # {}
  PROVE  /\ Min(S) \in S
         /\ \A s \in S : Min(S) <= s
<1> DEFINE R == OpToRel(<, Nat)
<1>1. \E x \in S : \A y \in S : ~(<<y, x>> \in R)
  BY NatLessThanWellFounded, WFMin, Zenon
<1>2. PICK x \in S : \A y \in S : ~(<<y, x>> \in R)
  BY <1>1, Zenon
<1>3. ASSUME NEW y \in S PROVE x <= y
  <2>1. ~(y < x)
    BY <1>2, Zenon DEF OpToRel
  <2> QED BY <2>1
<1> QED BY <1>3, Zenon DEF Min

\* A read returns a row value.
LEMMA VisibleType ==
  ASSUME NEW row \in Row, NEW t \in Time
  PROVE  Visible(row, t) \in Value
<1>1. CASE VersionsUpTo(row, t) = {}
  BY Zenon, <1>1 DEF Visible, Value
<1>2. CASE VersionsUpTo(row, t) # {}
  <2>1. VersionsUpTo(row, t) \in SUBSET (0..t) /\ t \in Nat
    BY MaxTimeAssumption DEF VersionsUpTo, Time
  <2>2. Max(VersionsUpTo(row, t)) \in VersionsUpTo(row, t)
    BY <1>2, <2>1, MaxProperty, Zenon
  <2> QED BY <1>2, <2>2, MaxTimeAssumption DEF Visible, VersionsUpTo, Row, Time
<1> QED BY Zenon, <1>1, <1>2

\* A read at t depends on the versions up to t only.
LEMMA VisibleAgrees ==
  ASSUME NEW row, NEW row2, NEW t \in Time, \A s \in 0..t : row[s] = row2[s]
  PROVE  Visible(row, t) = Visible(row2, t)
<1>1. VersionsUpTo(row, t) = VersionsUpTo(row2, t)
  BY Zenon DEF VersionsUpTo
<1>2. CASE VersionsUpTo(row, t) = {}
  BY Zenon, <1>1, <1>2 DEF Visible
<1>3. CASE VersionsUpTo(row, t) # {}
  <2>1. VersionsUpTo(row, t) \in SUBSET (0..t) /\ t \in Nat
    BY MaxTimeAssumption DEF VersionsUpTo, Time
  <2>2. Max(VersionsUpTo(row, t)) \in 0..t
    BY <1>3, <2>1, MaxProperty, Zenon
  <2> QED BY Zenon, <1>1, <1>3, <2>2 DEF Visible
<1> QED BY Zenon, <1>2, <1>3

\* A version at t is what a read at t returns.
LEMMA VisibleNewest ==
  ASSUME NEW row, NEW t \in Time, row[t] # None
  PROVE  Visible(row, t) = row[t]
<1>1. t \in VersionsUpTo(row, t) /\ t \in Nat
  BY MaxTimeAssumption DEF VersionsUpTo, Time
<1>2. VersionsUpTo(row, t) \in SUBSET (0..t) /\ VersionsUpTo(row, t) # {}
  BY Zenon, <1>1 DEF VersionsUpTo
<1>3. Max(VersionsUpTo(row, t)) \in 0..t /\ t <= Max(VersionsUpTo(row, t))
  BY <1>1, <1>2, MaxProperty, Zenon
<1>4. Max(VersionsUpTo(row, t)) = t
  BY <1>1, <1>3
<1> QED BY Zenon, <1>2, <1>4 DEF Visible

\* Two reads return the same row when no version lies between them.
LEMMA VisibleUnchanged ==
  ASSUME NEW row, NEW s \in Time, NEW t \in Time, s <= t,
         \A u \in Time : s < u /\ u <= t => row[u] = None
  PROVE  Visible(row, s) = Visible(row, t)
<1>1. VersionsUpTo(row, s) = VersionsUpTo(row, t)
  BY MaxTimeAssumption DEF VersionsUpTo, Time
<1> QED BY Zenon, <1>1 DEF Visible

--------------------------------------------------------------------------------
(* Type correctness. *)

\* The timestamp Clock::Now returns is later than every earlier one.
LEMMA NowIsLater ==
  ASSUME TypeOK, Now
  PROVE  NowValue \in Time /\ NowValue > lastDispensed /\ lastDispensed' = NowValue
BY MaxTimeAssumption DEF TypeOK, Now, NowValue, Time

\* What a flush stores is a row value.
LEMMA FlushedVersionType ==
  ASSUME TypeOK, NEW p \in Committer, NEW k \in Key, ToFlush(p, k)
  PROVE  FlushedVersion(k, commitTs[p], buffer[p][k]) \in Value
<1>1. ValueAt(k, commitTs[p]) \in Value
  BY Zenon, VisibleType DEF TypeOK, ValueAt, Row
<1> QED BY <1>1 DEF ToFlush, WritesAVersion, FlushedVersion, TypeOK

\* RemoveExpiredVersions keeps a version of the row, or everything.
LEMMA OldestLeftType ==
  ASSUME TypeOK, NEW k \in Key, NEW t \in Time
  PROVE  /\ OldestLeft(k, t) \in Time
         /\ OldestLeft(k, t) = 0 \/ versions[k][OldestLeft(k, t)] # None
         /\ OldestLeft(k, t) = oldest[k] \/ OldestLeft(k, t) <= t - retention
         /\ oldest[k] <= OldestLeft(k, t)
<1> DEFINE S == {oldest[k]} \cup VersionsUpTo(versions[k], t - retention)
<1>0. /\ t \in Nat /\ MaxTime \in Nat /\ retention \in Nat /\ oldest[k] \in 0..MaxTime
      /\ oldest[k] = 0 \/ versions[k][oldest[k]] # None
  BY MaxTimeAssumption, RetentionAssumption DEF TypeOK, Time
<1>1. S \in SUBSET (0..MaxTime) /\ S # {}
  <2>1. VersionsUpTo(versions[k], t - retention) \in SUBSET (0..MaxTime)
    BY <1>0 DEF VersionsUpTo, Time
  <2> QED BY Zenon, <1>0, <2>1
<1>2. OldestLeft(k, t) \in S /\ oldest[k] <= OldestLeft(k, t)
  <2>0. oldest[k] \in S
    BY Zenon
  <2> HIDE DEF S
  <2>1. Max(S) \in S /\ oldest[k] <= Max(S)
    BY <1>0, <1>1, <2>0, MaxProperty, Zenon
  <2> QED BY Zenon, <2>1 DEF S, OldestLeft
<1>3. CASE OldestLeft(k, t) = oldest[k]
  BY <1>0, <1>3 DEF Time
<1>4. CASE OldestLeft(k, t) \in VersionsUpTo(versions[k], t - retention)
  <2>1. /\ OldestLeft(k, t) \in 0..(t - retention)
        /\ versions[k][OldestLeft(k, t)] # None
    BY Zenon, <1>4 DEF VersionsUpTo
  <2>2. OldestLeft(k, t) \in 0..MaxTime /\ OldestLeft(k, t) <= t - retention
    BY <1>0, <2>1 DEF Time
  <2> QED BY Zenon, <1>2, <2>1, <2>2 DEF Time
<1> QED BY Zenon, <1>2, <1>3, <1>4

\* A reset leaves well-typed state.
LEMMA ForgetType ==
  ASSUME TypeOK, NEW p \in Committer, Forget(p)
  PROVE  /\ snapshot' \in [Committer -> Time \cup {None}]
         /\ readSet' \in [Committer -> SUBSET Key]
         /\ observed' \in [Committer -> [Key -> Value \cup {None}]]
         /\ buffer' \in [Committer -> [Key -> Value \cup {None, Touch}]]
BY Zenon DEF TypeOK, Forget, NotRead, NotWritten

\* Every step of the protocol keeps its state well typed.
LEMMA TypeStep == TypeOK /\ [Next]_lmVars => TypeOK'
<1> SUFFICES ASSUME TypeOK, [Next]_lmVars PROVE TypeOK'
  BY Zenon
<1> USE DEF Goto, managerVars, clockVars, gcVars, handleVars
<1>1. CASE Tick
  BY Zenon, <1>1 DEF TypeOK, Tick
<1>6. CASE Dispense
  BY Zenon, <1>6, NowIsLater DEF TypeOK, Dispense, Now
<1>2. ASSUME NEW t \in Txn, TxnStep(t) PROVE TypeOK'
  <2> t \in Committer
    BY Zenon DEF Committer
  <2>1. CASE PickSnapshot(t)
    BY Zenon, <2>1, NowIsLater DEF TypeOK, PickSnapshot, Now, States
  <2>2. CASE SnapshotDue(t)
    BY Zenon, <2>2 DEF TypeOK, SnapshotDue, States
  <2>3. CASE SnapshotSafe(t)
    BY Zenon, <2>3 DEF TypeOK, SnapshotSafe, States
  <2>4. ASSUME NEW K \in SUBSET Key, ReadRows(t, K) PROVE TypeOK'
    <3>1. \A k \in Key : ValueAt(k, snapshot[t]) \in Value
      BY <2>4, VisibleType, Zenon DEF TypeOK, ValueAt, Row, ReadRows
    <3>2. \A k \in Key : StoredAt(k, snapshot[t]) \in Value
      BY Zenon, <3>1 DEF StoredAt, Value
    <3> QED BY Zenon, <2>4, <3>2 DEF TypeOK, ReadRows
  <2>5. ASSUME NEW k \in Key, NEW w \in {t, Absent, Touch}, BufferWrite(t, k, w)
        PROVE TypeOK'
    BY Zenon, <2>5 DEF TypeOK, BufferWrite, Value
  <2>6. CASE UnlockAll(t)
    BY Zenon, <2>6, ForgetType DEF TypeOK, UnlockAll
  <2>7. CASE CallCommit(t)
    BY Zenon, <2>7 DEF TypeOK, CallCommit, States
  <2>8. CASE ValidateReadSet(t)
    BY Zenon, <2>8 DEF TypeOK, ValidateReadSet, States
  <2>9. CASE AbortCommit(t)
    BY Zenon, <2>9, ForgetType DEF TypeOK, AbortCommit, States
  <2> QED BY Zenon, <1>2, <2>1, <2>2, <2>3, <2>4, <2>5, <2>6, <2>7, <2>8, <2>9 DEF TxnStep
<1>3. ASSUME NEW d \in Ddl, CallSchemaChange(d) PROVE TypeOK'
  BY <1>3 DEF TypeOK, CallSchemaChange, Committer, Value, States
<1>4. ASSUME NEW p \in Committer, CommitStep(p) PROVE TypeOK'
  <2>1. CASE EnterCommit(p)
    BY Zenon, <2>1 DEF TypeOK, EnterCommit, States
  <2>2. CASE ReserveCommitTimestamp(p)
    BY Zenon, <2>2, NowIsLater DEF TypeOK, ReserveCommitTimestamp, Now, States
  <2>3. ASSUME NEW k \in Key, Flush(p, k) PROVE TypeOK'
    <3>1. FlushedVersion(k, commitTs[p], buffer[p][k]) \in Value
      BY Zenon, <2>3, FlushedVersionType DEF Flush
    <3>2. /\ OldestLeft(k, commitTs[p]) \in Time
          /\ OldestLeft(k, commitTs[p]) = 0 \/ versions[k][OldestLeft(k, commitTs[p])] # None
      BY Zenon, OldestLeftType DEF TypeOK
    <3>3. \A j \in Key : oldest'[j] = 0 \/ versions'[j][oldest'[j]] # None
      <4> SUFFICES ASSUME NEW j \in Key PROVE oldest'[j] = 0 \/ versions'[j][oldest'[j]] # None
        BY Zenon
      <4>1. FlushedVersion(k, commitTs[p], buffer[p][k]) # None
        BY Zenon, <3>1, ActorsAssumption, CopyAssumption DEF Value
      <4>2. /\ oldest' = [oldest EXCEPT ![k] = OldestLeft(k, commitTs[p])]
            /\ versions' = [versions EXCEPT ![k][commitTs[p]] =
                             FlushedVersion(k, commitTs[p], buffer[p][k])]
        BY Zenon, <2>3 DEF Flush
      <4>3. CASE j = k
        BY Zenon, <3>2, <4>1, <4>2, <4>3 DEF TypeOK
      <4>4. CASE j # k
        BY Zenon, <4>2, <4>4 DEF TypeOK
      <4> QED BY Zenon, <4>3, <4>4
    <3> QED BY Zenon, <2>3, <3>1, <3>2, <3>3 DEF TypeOK, Flush
  <2>4. CASE MarkCommitted(p)
    BY Zenon, <2>4 DEF TypeOK, MarkCommitted, States, Serial!Result
  <2>5. CASE LeaveCommit(p)
    BY Zenon, <2>5, ForgetType DEF TypeOK, LeaveCommit, States
  <2> QED BY Zenon, <1>4, <2>1, <2>2, <2>3, <2>4, <2>5 DEF CommitStep
<1>5. CASE UNCHANGED lmVars
  BY Zenon, <1>5 DEF TypeOK, lmVars
<1>7. ASSUME NEW d \in Ddl, SetVersionRetentionPeriod(d) PROVE TypeOK'
  BY Zenon, <1>7 DEF TypeOK, SetVersionRetentionPeriod
<1> QED BY Zenon, <1>1, <1>2, <1>3, <1>4, <1>5, <1>6, <1>7 DEF Next, Idle

\* The initial state is well typed.
LEMMA TypeInit == Init => TypeOK
<1> SUFFICES ASSUME Init PROVE TypeOK
  BY Zenon
<1>1. versions \in [Key -> [Time -> Value \cup {None}]]
  BY Zenon DEF Init, Value
<1> QED BY <1>1, MaxTimeAssumption DEF Init, TypeOK, Time, NotRead, NotWritten, States

\* The protocol's state is always well typed.
THEOREM TypeCorrect == Spec => []TypeOK
<1> QED BY TypeInit, TypeStep, PTL DEF Spec

--------------------------------------------------------------------------------
(* The inductive invariant, and what the steps outside of a flush keep of it. *)

\* commit_mu_ is held exactly by who is inside the critical section.
MutexInv ==
  \A p \in Committer :
    commitMu = p <=> pc[p] \in {"validating", "reserving", "flushing", "leaving"}

\* No timestamp in use is later than the clock's last value.
ClockInv ==
  /\ lastCommit <= lastDispensed
  /\ \A p \in Committer : snapshot[p] # None => snapshot[p] <= lastDispensed

\* The pending timestamps are those of the commits that are flushing, and they
\* are later than the last commit.
PendingInv ==
  /\ \A p \in Committer : pc[p] = "flushing" => /\ commitTs[p] \in pending
                                                /\ commitTs[p] > lastCommit
                                                /\ commitTs[p] <= lastDispensed
  /\ \A c \in pending : \E p \in Committer : pc[p] = "flushing" /\ commitTs[p] = c

\* A version later than the last commit belongs to the commit that is flushing.
VersionsInv ==
  \A k \in Key, s \in Time :
    versions[k][s] # None /\ s > lastCommit =>
      \E p \in Committer : pc[p] = "flushing" /\ commitTs[p] = s

\* What row k holds after the write w when it held v before.
AfterWrite(v, w) == IF w \in {None, Touch} THEN v ELSE w

\* What has been flushed so far is what was buffered.
FlushInv ==
  \A p \in Committer, k \in Key :
    pc[p] = "flushing" /\ versions[k][commitTs[p]] # None =>
      /\ buffer[p][k] # None
      /\ versions[k][commitTs[p]] = AfterWrite(ValueAt(k, commitTs[p] - 1), buffer[p][k])

\* The transaction has its snapshot and is past WaitForSafeRead.
Settled(p) == snapshot[p] # None /\ pc[p] \notin {"picking", "due"}

\* No pending commit is at or before a snapshot in use.
SnapshotInv ==
  /\ \A p \in Committer : Settled(p) => NoPendingUpTo(snapshot[p])
  /\ \A p \in Committer : pc[p] \in {"picking", "due"} => snapshot[p] # None

\* The read of row k missed a version that had expired: another commit has
\* replaced it after the snapshot.
Missed(p, k) ==
  /\ observed[p][k] = Absent
  /\ \E s \in Time : /\ s > snapshot[p] /\ versions[k][s] # None
                     /\ pc[p] = "flushing" => s # commitTs[p]

\* What was read is in the read set, and is what the snapshot holds.
ReadInv ==
  /\ \A p \in Committer, k \in Key :
       observed[p][k] # None => /\ Settled(p)
                                /\ k \in readSet[p]
                                /\ \/ observed[p][k] = ValueAt(k, snapshot[p])
                                   \/ Missed(p, k)
  /\ \A d \in Ddl : readSet[d] = {}

\* From validation to the end of the flush, no row of the read set has a
\* version after the snapshot, other than the commit's own.
ValidatedInv ==
  \A p \in Committer, k \in Key, s \in Time :
    /\ pc[p] \in {"reserving", "flushing"}
    /\ snapshot[p] # None
    /\ k \in readSet[p]
    /\ s > snapshot[p]
    /\ versions[k][s] # None
    => pc[p] = "flushing" /\ s = commitTs[p]

\* Completed commits lie at or before the last commit timestamp, where no later
\* commit writes.
CommittedInv ==
  \A p \in Committer :
    /\ committed[p] # None <=> pc[p] \in {"leaving", "done"}
    /\ committed[p] # None => committed[p].ts \in 1..lastCommit

Inv ==
  /\ TypeOK
  /\ MutexInv
  /\ ClockInv
  /\ PendingInv
  /\ VersionsInv
  /\ FlushInv
  /\ SnapshotInv
  /\ ReadInv
  /\ ValidatedInv
  /\ CommittedInv
  /\ Serializable
  /\ CommitIsItsWrites

\* The step from one label to the next, row by row.
LEMMA GotoStep ==
  ASSUME TypeOK, NEW p \in Committer, NEW from, NEW to, Goto(p, from, to)
  PROVE  pc[p] = from /\ \A q \in Committer : pc'[q] = IF q = p THEN to ELSE pc[q]
BY Zenon DEF TypeOK, Goto

\* What a reset changes, handle by handle.
LEMMA ForgetStep ==
  ASSUME TypeOK, NEW p \in Committer, Forget(p)
  PROVE  /\ snapshot'[p] = None /\ readSet'[p] = {}
         /\ \A k \in Key : observed'[p][k] = None
         /\ \A q \in Committer \ {p} : /\ snapshot'[q] = snapshot[q]
                                       /\ readSet'[q] = readSet[q]
                                       /\ observed'[q] = observed[q]
                                       /\ buffer'[q] = buffer[q]
BY Zenon DEF TypeOK, Forget, NotRead

\* A step of p that is not part of a flush leaves the storage, the pending
\* commits and the completed ones as they are.
LEMMA HandleFrame ==
  ASSUME Inv, NEW p \in Committer,
         UNCHANGED <<pending, lastCommit, versions, commitTs, committed>>,
         lastDispensed' \in Time, lastDispensed <= lastDispensed',
         pc[p] \notin {"flushing", "leaving", "done"},
         pc'[p] \notin {"flushing", "leaving", "done"},
         \A q \in Committer \ {p} : pc'[q] = pc[q] /\ buffer'[q] = buffer[q]
  PROVE  /\ PendingInv' /\ VersionsInv' /\ FlushInv'
         /\ CommittedInv' /\ Serializable' /\ CommitIsItsWrites'
<1>1. PendingInv'
  <2>1. commitTs \in [Committer -> Time] /\ lastDispensed \in Time
    BY Zenon DEF Inv, TypeOK
  <2> QED BY <2>1, MaxTimeAssumption DEF Inv, PendingInv, Time
<1>2. VersionsInv'
  BY DEF Inv, VersionsInv
<1>3. FlushInv'
  BY DEF Inv, FlushInv, ValueAt
<1>4. CommittedInv'
  BY Zenon DEF Inv, CommittedInv
<1>5. Serializable' /\ CommitIsItsWrites'
  BY Zenon DEF Inv, Serializable, CommitIsItsWrites, ValueAt
<1> QED BY Zenon, <1>1, <1>2, <1>3, <1>4, <1>5

\* A step of p outside of the flush that moves it to another label, and at most
\* changes what it has buffered.
LEMMA LabelStep ==
  ASSUME Inv, NEW p \in Committer, NEW to,
         UNCHANGED <<lastDispensed, pending, lastCommit, versions, snapshot,
                     readSet, observed, commitTs, committed>>,
         \A q \in Committer : pc'[q] = IF q = p THEN to ELSE pc[q],
         \A q \in Committer \ {p} : buffer'[q] = buffer[q],
         pc[p] \notin {"flushing", "leaving", "done"},
         to \notin {"picking", "flushing", "leaving", "done"},
         to = "due" => pc[p] = "picking",
         pc[p] \in {"picking", "due"} /\ to # "due" => NoPendingUpTo(snapshot[p]),
         to = "reserving" =>
           \A k \in readSet[p], s \in Time :
             snapshot[p] # None /\ s > snapshot[p] => versions[k][s] = None
  PROVE  /\ ClockInv' /\ SnapshotInv' /\ ReadInv' /\ ValidatedInv'
         /\ PendingInv' /\ VersionsInv' /\ FlushInv'
         /\ CommittedInv' /\ Serializable' /\ CommitIsItsWrites'
<1>1. ClockInv' /\ SnapshotInv'
  BY Zenon DEF Inv, ClockInv, SnapshotInv, Settled, NoPendingUpTo
<1>2. ReadInv'
  BY DEF Inv, ReadInv, Settled, ValueAt, Missed
<1>3. ValidatedInv'
  BY DEF Inv, ValidatedInv
<1>4. lastDispensed \in Time
  BY Zenon DEF Inv, TypeOK
<1>5. /\ PendingInv' /\ VersionsInv' /\ FlushInv'
      /\ CommittedInv' /\ Serializable' /\ CommitIsItsWrites'
  BY <1>4, HandleFrame, MaxTimeAssumption DEF Time
<1> QED BY Zenon, <1>1, <1>2, <1>3, <1>5

\* A step that forgets what p has read keeps what the others have.
LEMMA ForgetKeeps ==
  ASSUME Inv, NEW p \in Committer, Forget(p),
         UNCHANGED <<lastDispensed, pending, lastCommit, versions, commitTs>>,
         pc'[p] \notin {"picking", "due"},
         \A q \in Committer \ {p} : pc'[q] = pc[q]
  PROVE  ClockInv' /\ SnapshotInv' /\ ReadInv' /\ ValidatedInv'
<1>1. /\ snapshot'[p] = None /\ readSet'[p] = {}
      /\ \A k \in Key : observed'[p][k] = None
      /\ \A q \in Committer \ {p} : /\ snapshot'[q] = snapshot[q]
                                    /\ readSet'[q] = readSet[q]
                                    /\ observed'[q] = observed[q]
  BY Zenon, ForgetStep DEF Inv
<1>2. ClockInv' /\ SnapshotInv'
  BY Zenon, <1>1 DEF Inv, ClockInv, SnapshotInv, Settled, NoPendingUpTo
<1>3. ReadInv'
  BY <1>1 DEF Inv, ReadInv, Settled, ValueAt, Missed, Committer
<1>4. ValidatedInv'
  BY <1>1 DEF Inv, ValidatedInv
<1> QED BY Zenon, <1>2, <1>3, <1>4

--------------------------------------------------------------------------------
(* The actions that change what the invariant is about *)

\* PickSnapshot keeps the invariant: the new snapshot is later than all else.
LEMMA PickSnapshotInv ==
  ASSUME Inv, TypeOK', NEW t \in Txn, PickSnapshot(t)
  PROVE  Inv'
<1>0. t \in Committer /\ TypeOK
  BY Zenon DEF Committer, Inv
<1>1. /\ pc[t] = "ready"
      /\ \A q \in Committer : pc'[q] = IF q = t THEN "picking" ELSE pc[q]
  BY Zenon, <1>0, GotoStep DEF PickSnapshot
<1>2. NowValue \in Time /\ NowValue > lastDispensed /\ lastDispensed' = NowValue
  BY Zenon, <1>0, NowIsLater DEF PickSnapshot
<1>3. /\ UNCHANGED <<commitMu, pending, lastCommit, versions, readSet, observed,
                     buffer, commitTs, committed>>
      /\ snapshot[t] = None
  BY Zenon DEF PickSnapshot, managerVars
<1>4. \A q \in Committer : snapshot'[q] = IF q = t THEN NowValue ELSE snapshot[q]
  BY Zenon, <1>0 DEF PickSnapshot, TypeOK
<1>5. /\ lastDispensed \in Time
      /\ \A q \in Committer : snapshot[q] # None => snapshot[q] \in Time
      /\ lastCommit \in Time
  BY <1>0 DEF TypeOK
<1>6. MutexInv'
  BY Zenon, <1>0, <1>1, <1>3 DEF Inv, MutexInv
<1>7. ClockInv'
  BY <1>2, <1>3, <1>4, <1>5, MaxTimeAssumption DEF Inv, ClockInv, Time
<1>8. SnapshotInv'
  BY <1>1, <1>2, <1>3, <1>4, ActorsAssumption
     DEF Inv, SnapshotInv, Settled, NoPendingUpTo, Time
<1>9. ReadInv'
  BY <1>0, <1>1, <1>3, <1>4 DEF Inv, ReadInv, Settled, ValueAt, Missed
<1>10. ValidatedInv'
  BY <1>1, <1>3, <1>4 DEF Inv, ValidatedInv
<1>11. /\ PendingInv' /\ VersionsInv' /\ FlushInv'
       /\ CommittedInv' /\ Serializable' /\ CommitIsItsWrites'
  BY <1>0, <1>1, <1>2, <1>3, <1>5, HandleFrame, MaxTimeAssumption DEF Time
<1> QED BY Zenon, <1>6, <1>7, <1>8, <1>9, <1>10, <1>11 DEF Inv

\* ReadRows keeps the invariant: it reads what the snapshot holds.
LEMMA ReadRowsInv ==
  ASSUME Inv, TypeOK', NEW t \in Txn, NEW K \in SUBSET Key, ReadRows(t, K)
  PROVE  Inv'
<1>0. t \in Committer /\ t \notin Ddl /\ TypeOK /\ lastDispensed \in Time
  BY Zenon, ActorsAssumption DEF Committer, Inv, TypeOK
<1>1. /\ pc[t] = "ready" /\ snapshot[t] # None
      /\ UNCHANGED <<lastDispensed, commitMu, pending, lastCommit, versions, pc,
                     snapshot, buffer, commitTs, committed>>
  BY Zenon DEF ReadRows, clockVars, managerVars
<1>2. \A q \in Committer : readSet'[q] = IF q = t THEN readSet[q] \cup K ELSE readSet[q]
  BY <1>0, Zenon DEF ReadRows, TypeOK
<1>3. \A q \in Committer, k \in Key :
        observed'[q][k] = IF q = t /\ k \in K THEN StoredAt(k, snapshot[t])
                                              ELSE observed[q][k]
  BY Zenon, <1>0 DEF ReadRows, TypeOK
<1>4. ReadInv'
  <2>1. ASSUME NEW q \in Committer, NEW k \in Key, observed'[q][k] # None
        PROVE  /\ Settled(q)' /\ k \in readSet'[q]
               /\ observed'[q][k] = ValueAt(k, snapshot[q])' \/ Missed(q, k)'
    <3>1. CASE q = t /\ k \in K
      <4>1. Settled(q)' /\ k \in readSet'[q] /\ observed'[q][k] = StoredAt(k, snapshot[t])
        BY <1>1, <1>2, <1>3, <3>1, ZenonT(30) DEF Settled
      <4>2. CASE ~(snapshot[t] < oldest[k])
        BY Zenon, <1>1, <3>1, <4>1, <4>2 DEF StoredAt, ValueAt
      <4>3. CASE snapshot[t] < oldest[k]
        <5>1. /\ snapshot[t] \in Time /\ oldest[k] \in Time
              /\ oldest[k] = 0 \/ versions[k][oldest[k]] # None
          BY Zenon, <1>0, <1>1 DEF TypeOK
        <5>2. oldest[k] > snapshot[t] /\ versions[k][oldest[k]] # None
          BY <4>3, <5>1, MaxTimeAssumption DEF Time
        <5>3. observed'[q][k] = Absent
          BY Zenon, <4>1, <4>3 DEF StoredAt
        <5> QED BY Zenon, <1>1, <3>1, <4>1, <5>1, <5>2, <5>3 DEF Missed
      <4> QED BY Zenon, <4>2, <4>3
    <3>2. CASE ~(q = t /\ k \in K)
      <4>1. observed'[q][k] = observed[q][k] /\ observed[q][k] # None
        BY Zenon, <1>3, <2>1, <3>2
      <4>2. /\ Settled(q) /\ k \in readSet[q]
            /\ observed[q][k] = ValueAt(k, snapshot[q]) \/ Missed(q, k)
        BY Zenon, <4>1 DEF Inv, ReadInv
      <4> QED BY <1>1, <1>2, <4>1, <4>2, ZenonT(30) DEF Settled, ValueAt, Missed
    <3> QED BY Zenon, <3>1, <3>2
  <2>2. \A d \in Ddl : readSet'[d] = {}
    BY Zenon, <1>0, <1>2 DEF Inv, ReadInv, Committer
  <2> QED BY Zenon, <2>1, <2>2 DEF ReadInv
<1>5. ValidatedInv'
  BY <1>0, <1>1, <1>2, Zenon DEF Inv, ValidatedInv
<1>6. MutexInv' /\ ClockInv' /\ SnapshotInv'
  BY Zenon, <1>1 DEF Inv, MutexInv, ClockInv, SnapshotInv, Settled, NoPendingUpTo
<1>7. /\ PendingInv' /\ VersionsInv' /\ FlushInv'
      /\ CommittedInv' /\ Serializable' /\ CommitIsItsWrites'
  BY <1>0, <1>1, HandleFrame, MaxTimeAssumption DEF Time
<1> QED BY Zenon, <1>4, <1>5, <1>6, <1>7 DEF Inv

\* The reserved timestamp is later than every version and every snapshot.
LEMMA ReserveInv ==
  ASSUME Inv, TypeOK', NEW p \in Committer, ReserveCommitTimestamp(p)
  PROVE  Inv'
<1>0. /\ TypeOK /\ lastDispensed \in Time /\ lastCommit \in Time
      /\ commitTs \in [Committer -> Time]
      /\ \A q \in Committer : snapshot[q] # None => snapshot[q] \in Time
  BY Zenon DEF Inv, TypeOK
<1>1. /\ pc[p] = "reserving"
      /\ \A q \in Committer : pc'[q] = IF q = p THEN "flushing" ELSE pc[q]
  BY Zenon, <1>0, GotoStep DEF ReserveCommitTimestamp
<1>2. NowValue \in Time /\ NowValue > lastDispensed /\ lastDispensed' = NowValue
  BY Zenon, <1>0, NowIsLater DEF ReserveCommitTimestamp
<1>3. /\ UNCHANGED <<commitMu, lastCommit, versions, snapshot, readSet, observed,
                     buffer, committed>>
      /\ pending' = pending \cup {NowValue}
  BY Zenon DEF ReserveCommitTimestamp, handleVars
<1>4. \A q \in Committer : commitTs'[q] = IF q = p THEN NowValue ELSE commitTs[q]
  BY Zenon, <1>0 DEF ReserveCommitTimestamp
<1>5. \A q \in Committer : pc[q] # "flushing"
  BY Zenon, <1>1 DEF Inv, MutexInv
<1>6. \A k \in Key, s \in Time : versions[k][s] # None => s <= lastCommit
  BY <1>0, <1>5, MaxTimeAssumption DEF Inv, VersionsInv, Time
<1>7. lastCommit <= lastDispensed
  BY Zenon DEF Inv, ClockInv
<1>8. MutexInv'
  BY Zenon, <1>1, <1>3 DEF Inv, MutexInv
<1>9. ClockInv'
  BY <1>0, <1>2, <1>3, MaxTimeAssumption DEF Inv, ClockInv, Time
<1>10. PendingInv'
  BY <1>0, <1>1, <1>2, <1>3, <1>4, <1>5, <1>7, MaxTimeAssumption DEF Inv, PendingInv, Time
<1>11. VersionsInv' /\ FlushInv'
  BY <1>0, <1>1, <1>2, <1>3, <1>4, <1>5, <1>6, <1>7, MaxTimeAssumption
     DEF VersionsInv, FlushInv, Time
<1>12. SnapshotInv'
  BY <1>0, <1>1, <1>2, <1>3, MaxTimeAssumption
     DEF Inv, SnapshotInv, ClockInv, Settled, NoPendingUpTo, Time
<1>13. ReadInv'
  <2>1. ASSUME NEW q \in Committer, NEW k \in Key, Missed(q, k), Settled(q), k \in readSet[q]
        PROVE  Missed(q, k)'
    <3>1. CASE q # p
      BY Zenon, <1>1, <1>3, <1>4, <2>1, <3>1 DEF Missed
    <3>2. CASE q = p
      BY <1>1, <1>3, <2>1, <3>2, ZenonT(30) DEF Inv, ValidatedInv, Missed, Settled
    <3> QED BY Zenon, <3>1, <3>2
  <2> QED BY <1>1, <1>3, <2>1, Zenon DEF Inv, ReadInv, Settled, ValueAt
<1>14. ValidatedInv'
  BY Zenon, <1>1, <1>3, <1>4, <1>5 DEF Inv, ValidatedInv
<1>15. CommittedInv' /\ Serializable' /\ CommitIsItsWrites'
  BY <1>1, <1>3, Zenon DEF Inv, CommittedInv, Serializable, CommitIsItsWrites, ValueAt
<1> QED BY Zenon, <1>8, <1>9, <1>10, <1>11, <1>12, <1>13, <1>14, <1>15 DEF Inv

\* A flush writes at a timestamp that no snapshot in use and no completed commit
\* reaches.
LEMMA FlushKeepsInv ==
  ASSUME Inv, TypeOK', NEW p \in Committer, NEW k \in Key, Flush(p, k)
  PROVE  Inv'
<1> DEFINE c == commitTs[p]
           v == FlushedVersion(k, c, buffer[p][k])
<1>0. /\ TypeOK /\ versions \in [Key -> [Time -> Value \cup {None}]]
      /\ \A q \in Committer : snapshot[q] # None => snapshot[q] \in Time
      /\ lastCommit \in Time /\ commitTs[p] \in Time
  BY Zenon DEF Inv, TypeOK
<1>1. /\ pc[p] = "flushing" /\ ToFlush(p, k)
      /\ UNCHANGED <<lastDispensed, commitMu, pending, lastCommit, pc, snapshot,
                     readSet, observed, buffer, commitTs, committed>>
  BY Zenon DEF Flush, clockVars, managerVars, handleVars
<1>2. c \in pending /\ c > lastCommit /\ c \in Time /\ c - 1 \in Time
  BY <1>0, <1>1, MaxTimeAssumption DEF Inv, PendingInv, Time
<1>3. buffer[p][k] # None /\ versions[k][c] = None
  BY Zenon, <1>1 DEF ToFlush, WritesAVersion
<1>4. v \in Value /\ v # None
  BY Zenon, <1>0, <1>1, FlushedVersionType, ActorsAssumption, CopyAssumption DEF Value
<1>5. \A j \in Key, s \in Time :
        versions'[j][s] = IF j = k /\ s = c THEN v ELSE versions[j][s]
  BY Zenon, <1>0, <1>2 DEF Flush
<1>6. v = AfterWrite(ValueAt(k, c - 1), buffer[p][k])
  <2>1. Visible(versions[k], c - 1) = Visible(versions[k], c)
    <3>1. /\ c - 1 <= c
          /\ \A u \in Time : c - 1 < u /\ u <= c => versions[k][u] = None
      BY <1>2, <1>3, MaxTimeAssumption DEF Time
    <3> QED BY Zenon, <1>2, <3>1, VisibleUnchanged
  <2> QED BY Zenon, <1>3, <2>1 DEF FlushedVersion, AfterWrite, ValueAt
<1> HIDE DEF c, v
<1>7. ASSUME NEW j \in Key, NEW u \in Time, u < c
      PROVE  Visible(versions'[j], u) = Visible(versions[j], u)
  <2>1. \A s \in 0..u : versions'[j][s] = versions[j][s]
    BY <1>2, <1>5, <1>7, MaxTimeAssumption DEF Time
  <2> QED BY Zenon, <2>1, VisibleAgrees
<1>8. \A q \in Committer : pc[q] \in {"reserving", "flushing"} => q = p
  BY <1>1 DEF Inv, MutexInv
<1>9. FlushInv'
  <2> SUFFICES ASSUME NEW j \in Key, versions'[j][c] # None
               PROVE  /\ buffer[p][j] # None
                      /\ versions'[j][c] =
                           AfterWrite(Visible(versions'[j], c - 1), buffer[p][j])
    BY Zenon, <1>1, <1>8 DEF FlushInv, ValueAt, c
  <2>1. Visible(versions'[j], c - 1) = ValueAt(j, c - 1)
    BY <1>2, <1>7, MaxTimeAssumption DEF Time, ValueAt
  <2>2. CASE j = k
    BY Zenon, <1>2, <1>3, <1>5, <1>6, <2>1, <2>2
  <2>3. CASE j # k
    BY <1>1, <1>2, <1>5, <2>1, <2>3 DEF Inv, FlushInv, c
  <2> QED BY Zenon, <2>2, <2>3
<1>10. VersionsInv'
  BY <1>1, <1>5 DEF Inv, VersionsInv, c
<1>11. ReadInv'
  <2>1. \A q \in Committer : Settled(q) => snapshot[q] \in Time /\ snapshot[q] < c
    BY Zenon, <1>0, <1>2, MaxTimeAssumption DEF Inv, SnapshotInv, Settled, NoPendingUpTo, Time
  <2>2. \A q \in Committer, j \in Key :
          Settled(q) => ValueAt(j, snapshot[q])' = ValueAt(j, snapshot[q])
    BY Zenon, <1>1, <1>7, <2>1 DEF ValueAt
  <2>3. \A q \in Committer, j \in Key : Missed(q, j) => Missed(q, j)'
    BY <1>1, <1>3, <1>5 DEF Missed
  <2> QED BY <1>1, <2>2, <2>3 DEF Inv, ReadInv, Settled
<1>12. ValidatedInv'
  BY <1>1, <1>5, <1>8 DEF Inv, ValidatedInv, c
<1>13. CommittedInv'
  BY <1>1, ZenonT(30) DEF Inv, CommittedInv
<1>14. Serializable' /\ CommitIsItsWrites'
  <2>1. ASSUME NEW q \in Committer, committed[q] # None, NEW j \in Key
        PROVE  /\ ValueAt(j, committed[q].ts)' = ValueAt(j, committed[q].ts)
               /\ ValueAt(j, committed[q].ts - 1)' = ValueAt(j, committed[q].ts - 1)
    <3>1. /\ committed[q].ts \in Time /\ committed[q].ts < c
          /\ committed[q].ts - 1 \in Time /\ committed[q].ts - 1 < c
      BY <1>0, <1>2, <2>1, MaxTimeAssumption DEF Inv, CommittedInv, Time
    <3> QED BY <1>1, <1>7, <3>1, Zenon DEF ValueAt
  <2> QED BY <1>1, <2>1 DEF Inv, Serializable, CommitIsItsWrites
<1>15. MutexInv' /\ ClockInv' /\ PendingInv' /\ SnapshotInv'
  BY Zenon, <1>1 DEF Inv, MutexInv, ClockInv, PendingInv, SnapshotInv, Settled, NoPendingUpTo
<1> QED BY Zenon, <1>9, <1>10, <1>11, <1>12, <1>13, <1>14, <1>15 DEF Inv

\* What the commit of p leaves when it is marked complete: its reads are what
\* the database held just before its timestamp, and its writes are what changed.
LEMMA MarkedCommit ==
  ASSUME Inv, NEW p \in Committer, MarkCommitted(p), NEW k \in Key
  PROVE  LET c == commitTs[p] IN
         /\ observed[p][k] \in {None, ValueAt(k, c - 1)}
         /\ ValueAt(k, c) = AfterWrite(ValueAt(k, c - 1), buffer[p][k])
<1> DEFINE c == commitTs[p]
<1>0. /\ commitTs[p] \in Time /\ lastCommit \in Time /\ pc[p] = "flushing"
      /\ snapshot[p] # None => snapshot[p] \in Time
  BY Zenon DEF Inv, TypeOK, MarkCommitted, Goto
<1>1. c \in Time /\ c - 1 \in Time /\ c \in pending
  BY <1>0, MaxTimeAssumption DEF Inv, PendingInv, Time
<1> HIDE DEF c
<1>2. observed[p][k] \in {None, ValueAt(k, c - 1)}
  <2> SUFFICES ASSUME observed[p][k] # None PROVE observed[p][k] = ValueAt(k, c - 1)
    BY Zenon
  <2>0. /\ Settled(p) /\ k \in readSet[p] /\ snapshot[p] # None
        /\ observed[p][k] = ValueAt(k, snapshot[p]) \/ Missed(p, k)
    BY Zenon DEF Inv, ReadInv, Settled
  <2>1. /\ Settled(p) /\ k \in readSet[p] /\ snapshot[p] # None
        /\ observed[p][k] = ValueAt(k, snapshot[p])
    BY Zenon, <1>0, <2>0 DEF Inv, ValidatedInv, Missed
  <2>2. snapshot[p] \in Time /\ snapshot[p] <= c - 1
    BY <1>0, <1>1, <2>1, MaxTimeAssumption DEF Inv, SnapshotInv, NoPendingUpTo, Time
  <2>3. \A u \in Time : snapshot[p] < u /\ u <= c - 1 => versions[k][u] = None
    BY <1>0, <1>1, <2>1, <2>2, MaxTimeAssumption DEF Inv, ValidatedInv, Time, c
  <2> QED BY Zenon, <1>1, <2>1, <2>2, <2>3, VisibleUnchanged DEF ValueAt
<1>3. ValueAt(k, c) = AfterWrite(ValueAt(k, c - 1), buffer[p][k])
  <2>1. CASE versions[k][c] # None
    BY <1>0, <1>1, <2>1, VisibleNewest DEF Inv, FlushInv, ValueAt, c
  <2>2. CASE versions[k][c] = None
    <3>1. ValueAt(k, c - 1) = ValueAt(k, c)
      BY <1>1, <2>2, VisibleUnchanged, MaxTimeAssumption DEF Time, ValueAt
    <3>2. buffer[p][k] \in {None, Touch} \/ buffer[p][k] = ValueAt(k, c)
      BY <2>2, ActorsAssumption, Zenon DEF MarkCommitted, ToFlush, WritesAVersion, c
    <3> QED BY Zenon, <3>1, <3>2 DEF AfterWrite
  <2> QED BY Zenon, <2>1, <2>2
<1> QED BY Zenon, <1>2, <1>3 DEF c

\* MarkCommitted keeps the invariant: the commit is serialized at its timestamp.
LEMMA MarkCommittedInv ==
  ASSUME Inv, TypeOK', NEW p \in Committer, MarkCommitted(p)
  PROVE  Inv'
<1> DEFINE c == commitTs[p]
           rec == [ts |-> c, reads |-> observed[p], writes |-> buffer[p]]
<1>0. /\ TypeOK /\ c \in Time /\ lastCommit \in Time /\ lastDispensed \in Time
      /\ committed' \in [Committer -> Serial!Result \cup {None}]
      /\ committed \in [Committer -> Serial!Result \cup {None}]
      /\ observed[p] \in [Key -> Value \cup {None}]
      /\ buffer[p] \in [Key -> Value \cup {None, Touch}]
  BY Zenon DEF Inv, TypeOK
<1>1. /\ pc[p] = "flushing"
      /\ \A q \in Committer : pc'[q] = IF q = p THEN "leaving" ELSE pc[q]
  BY <1>0, GotoStep, ZenonT(30) DEF MarkCommitted
<1>2. c > lastCommit /\ c <= lastDispensed /\ c \in pending
  BY Zenon, <1>1 DEF Inv, PendingInv
<1>3. /\ UNCHANGED <<lastDispensed, commitMu, versions, snapshot, readSet, observed,
                     buffer, commitTs>>
      /\ pending' = pending \ {c} /\ lastCommit' = c
      /\ committed' = [committed EXCEPT ![p] = rec]
  BY Zenon, <1>0, <1>2 DEF MarkCommitted, clockVars, handleVars
<1>4. \A q \in Committer : pc[q] \in {"reserving", "flushing"} => q = p
  BY Zenon, <1>1 DEF Inv, MutexInv
<1>5. rec \in Serial!Result /\ rec # None
  BY <1>0, NoneAssumption DEF Serial!Result
<1>6. /\ rec.ts = c /\ rec.reads = observed[p] /\ rec.writes = buffer[p]
      /\ \A q \in Committer : committed'[q] = IF q = p THEN rec ELSE committed[q]
  BY Zenon, <1>0, <1>3
<1> HIDE DEF c, rec
<1>7. ClockInv' /\ MutexInv'
  BY Zenon, <1>1, <1>2, <1>3 DEF Inv, ClockInv, MutexInv
<1>8. PendingInv'
  BY Zenon, <1>1, <1>3, <1>4 DEF Inv, PendingInv, c
<1>9. VersionsInv' /\ FlushInv'
  BY <1>0, <1>1, <1>2, <1>3, <1>4, MaxTimeAssumption DEF Inv, VersionsInv, FlushInv, Time, c
<1>10. SnapshotInv' /\ ReadInv'
  BY <1>1, <1>3 DEF Inv, SnapshotInv, ReadInv, Settled, NoPendingUpTo, ValueAt, Missed
<1>11. ValidatedInv'
  BY <1>1, <1>3, <1>4, Zenon DEF Inv, ValidatedInv
<1>12. CommittedInv'
  <2>1. ASSUME NEW q \in Committer, q # p
        PROVE  /\ committed'[q] # None <=> pc'[q] \in {"leaving", "done"}
               /\ committed'[q] # None => committed'[q].ts \in 1..lastCommit'
    BY <1>0, <1>1, <1>2, <1>3, <1>6, <2>1, MaxTimeAssumption DEF Inv, CommittedInv, Time
  <2>2. /\ committed'[p] # None /\ pc'[p] = "leaving"
        /\ committed'[p].ts \in 1..lastCommit'
    BY <1>0, <1>1, <1>2, <1>3, <1>5, <1>6, MaxTimeAssumption DEF Time
  <2> QED BY Zenon, <2>1, <2>2 DEF CommittedInv
<1>13. Serializable' /\ CommitIsItsWrites'
  <2>1. ASSUME NEW q \in Committer, NEW k \in Key, committed'[q] # None
        PROVE  /\ committed'[q].reads[k] \in {None, ValueAt(k, committed'[q].ts - 1)}
               /\ ValueAt(k, committed'[q].ts) =
                    AfterWrite(ValueAt(k, committed'[q].ts - 1), committed'[q].writes[k])
    <3>1. CASE q = p
      BY <1>6, <3>1, MarkedCommit DEF c
    <3>2. CASE q # p
      BY <1>6, <2>1, <3>2 DEF Inv, Serializable, CommitIsItsWrites, AfterWrite
    <3> QED BY Zenon, <3>1, <3>2
  <2> QED BY <1>3, <2>1 DEF Serializable, CommitIsItsWrites, AfterWrite, ValueAt
<1> QED BY Zenon, <1>7, <1>8, <1>9, <1>10, <1>11, <1>12, <1>13 DEF Inv

================================================================================
