----------------------------- MODULE ReadWriteInv ------------------------------
(******************************************************************************)
(* Read-write transactions and schema changes use the commit protocol as      *)
(* LockManager specifies it, so its theorems hold of them.  This module also  *)
(* has the inductive invariant of ReadWriteTransaction, and shows that calls  *)
(* and schema changes keep it; ReadWriteProofs has the data operations, the   *)
(* commit, and what follows.                                                  *)
(******************************************************************************)
EXTENDS ReadWriteTransaction, LockManagerInv

--------------------------------------------------------------------------------
(* The inductive invariant *)

\* Only an active transaction runs a call or has read anything, and the schema
\* a request was analyzed against is the transaction's own, handed out.
CallInv ==
  \A t \in Txn :
    /\ state[t] # "active" => observed[t] = NotRead /\ Between(t)
    /\ analyzed[t] # None => /\ analyzed[t] = schema[t]
                             /\ state[t] = "uninitialized" => handedOut[t]

\* A schema in the catalog belongs to a completed schema change or to the one
\* that is being applied.
CatalogInv ==
  /\ catalog[0] = InitialSchema
  /\ \A s \in Time : catalog[s] # None /\ s > lastCommit =>
       \E d \in Ddl : pc[d] = "flushing" /\ commitTs[d] = s

\* A validated commit runs on the latest schema.
ValidatedSchemaInv ==
  \A t \in Txn : pc[t] \in {"reserving", "flushing"} => schema[t] = GetLatestSchema

RWInv ==
  /\ Inv
  /\ RWTypeOK
  /\ CallInv
  /\ CatalogInv
  /\ ValidatedSchemaInv
  /\ ReadsOnItsSchema
  /\ CommitsOnItsSchema

--------------------------------------------------------------------------------
(* Steps of transactions are steps of the protocol *)

\* A reset is an UnlockAll of the protocol.
LEMMA ResetUnlocks ==
  ASSUME NEW t \in Txn, NEW s, pc[t] = "ready", Reset(t, s),
         UNCHANGED <<clockVars, managerVars, versions, gcVars, pc, commitTs, committed>>
  PROVE  Next
<1>1. UnlockAll(t)
  BY Zenon DEF UnlockAll, Reset
<1> QED BY Zenon, <1>1 DEF Next, TxnStep

\* Between its calls a transaction leaves the protocol alone or unlocks.
LEMMA CallIsAStep ==
  ASSUME NEW t \in Txn, Call(t)
  PROVE  Next \/ UNCHANGED lmVars
<1>1. ASSUME NEW o, AbortCall(t, o) PROVE Next
  BY Zenon, <1>1, ResetUnlocks DEF AbortCall, Runnable
<1>2. ASSUME NEW o, NEW s, EndCall(t, o, s) PROVE Next
  BY Zenon, <1>2, ResetUnlocks DEF EndCall, Runnable
<1>3. CASE QueryError(t)
  BY Zenon, <1>3, ResetUnlocks DEF QueryError, AbortRunning
<1>4. ASSUME NEW o, BeginCall(t, o) PROVE UNCHANGED lmVars
  BY Zenon, <1>4 DEF BeginCall
<1>5. CASE HandOutSchema(t)
  BY Zenon, <1>5 DEF HandOutSchema
<1> QED BY Zenon, <1>1, <1>2, <1>3, <1>4, <1>5 DEF Call, Rollback, Invalidate

\* A data operation takes the snapshot, reads, buffers a write or unlocks.
LEMMA DataIsAStep ==
  ASSUME NEW t \in Txn, DataStep(t)
  PROVE  Next \/ UNCHANGED lmVars
<1>1. CASE AcquireSnapshot(t)
  BY Zenon, <1>1 DEF AcquireSnapshot, Next, TxnStep
<1>2. CASE AbortOnSnapshotSchema(t)
  BY Zenon, <1>2, ResetUnlocks DEF AbortOnSnapshotSchema, AbortRunning, HasSnapshot
<1>3. ASSUME NEW K \in SUBSET Key, Read(t, K) \/ RecordMutationReads(t, K) PROVE Next
  BY Zenon, <1>3 DEF Read, RecordMutationReads, Next, TxnStep
<1>4. ASSUME NEW k \in Key, NEW type \in Mutations, Write(t, k, type)
      PROVE  Next \/ UNCHANGED lmVars
  <2>1. BufferedOp(t, k, type) \in {t, Absent, Touch}
    BY Zenon DEF BufferedOp
  <2>2. UNCHANGED lmVars \/ BufferWrite(t, k, BufferedOp(t, k, type))
    BY Zenon, <1>4 DEF Write
  <2> QED BY Zenon, <2>1, <2>2 DEF Next, TxnStep
<1>5. CASE FailCall(t)
  BY Zenon, <1>5, ResetUnlocks DEF FailCall
<1> QED BY Zenon, <1>1, <1>2, <1>3, <1>4, <1>5 DEF DataStep

\* Commit goes through the protocol's critical section.
LEMMA CommitIsAStep ==
  ASSUME NEW t \in Txn, CommitCall(t)
  PROVE  Next \/ UNCHANGED lmVars
<1>0. t \in Committer
  BY Zenon DEF Committer
<1>1. CASE InjectAbort(t)
  BY Zenon, <1>1, ResetUnlocks DEF InjectAbort, AbortRunning
<1>2. CASE ChangeStreamError(t)
  BY Zenon, <1>2 DEF ChangeStreamError
<1>3. CASE Commit(t) \/ CommitAborts(t) \/ CommitValidates(t)
  BY Zenon, <1>3 DEF Commit, CommitAborts, CommitValidates, Next, TxnStep
<1>4. CASE CommitProceeds(t) \/ CommitReturns(t)
  BY Zenon, <1>0, <1>4 DEF CommitProceeds, CommitReturns, Next, CommitStep
<1> QED BY Zenon, <1>1, <1>2, <1>3, <1>4 DEF CommitCall

\* A schema change goes through the same critical section.
LEMMA DdlIsAStep ==
  ASSUME NEW d \in Ddl, DdlStep(d)
  PROVE  Next \/ UNCHANGED lmVars
<1>0. d \in Committer
  BY Zenon DEF Committer
<1>1. CASE ChangeSchema(d)
  BY Zenon, <1>0, <1>1 DEF ChangeSchema, Next, CommitStep
<1>2. CASE EndSchemaChange(d)
  BY Zenon, <1>0, <1>2 DEF EndSchemaChange, Next, CommitStep
<1>3. CASE AddSchema(d) \/ AddActionsForSchema(d)
  BY Zenon, <1>3 DEF AddSchema, AddActionsForSchema
<1>4. CASE ApplyRetention(d)
  BY Zenon, <1>4 DEF ApplyRetention, Next
<1> QED BY Zenon, <1>1, <1>2, <1>3, <1>4 DEF DdlStep

\* Every step is a step of the protocol or leaves it alone.
LEMMA RWStepIsAStep == [RWNext]_allVars => [Next]_lmVars
<1> SUFFICES ASSUME [RWNext]_allVars PROVE [Next]_lmVars
  BY Zenon
<1>1. CASE SystemStep
  BY Zenon, <1>1 DEF SystemStep, Next
<1>2. CASE UNCHANGED allVars
  BY Zenon, <1>2 DEF allVars
<1> QED BY Zenon, <1>1, <1>2, CallIsAStep, DataIsAStep, CommitIsAStep, DdlIsAStep DEF RWNext

\* Transactions and schema changes behave as the commit protocol's own
\* specification allows, for any number of them.
THEOREM TransactionsUseTheProtocol == RWSpec => UsesTheProtocol
<1>1. RWInit => Init
  BY Zenon DEF RWInit
<1> QED BY <1>1, RWStepIsAStep, PTL DEF RWSpec, UsesTheProtocol, Spec

--------------------------------------------------------------------------------
(* The invariant is inductive *)

\* What a reset changes, transaction by transaction.
LEMMA ResetDelta ==
  ASSUME RWTypeOK, TypeOK, NEW t \in Txn, NEW s, Reset(t, s)
  PROVE  \A q \in Txn :
           /\ observed'[q] = IF q = t THEN NotRead ELSE observed[q]
           /\ snapshot'[q] = IF q = t THEN None ELSE snapshot[q]
           /\ q # t => handedOut'[q] = handedOut[q]
           /\ analyzed'[q] = IF q = t THEN None ELSE analyzed[q]
           /\ state'[q] = IF q = t THEN s ELSE state[q]
<1>1. /\ observed \in [Committer -> [Key -> Value \cup {None}]]
      /\ snapshot \in [Committer -> Time \cup {None}]
      /\ handedOut \in [Txn -> BOOLEAN]
      /\ analyzed \in [Txn -> Schema \cup {None}]
      /\ state \in [Txn -> {"uninitialized", "active", "committed", "rolledback",
                            "invalid"}]
  BY Zenon DEF RWTypeOK, TypeOK
<1> QED BY <1>1, Zenon DEF Reset, Forget, Committer

\* A step of one transaction keeps the invariant if it keeps it for that
\* transaction, and leaves the others and the catalog alone.
LEMMA TxnKeeps ==
  ASSUME RWInv, Inv', RWTypeOK', NEW t \in Txn,
         catalog' = catalog, lastCommit' >= lastCommit,
         \A d \in Ddl : pc'[d] = pc[d] /\ commitTs'[d] = commitTs[d],
         \A q \in Txn \ {t} :
           /\ state'[q] = state[q] /\ schema'[q] = schema[q]
           /\ handedOut'[q] = handedOut[q] /\ analyzed'[q] = analyzed[q]
           /\ op'[q] = op[q] /\ pc'[q] = pc[q]
           /\ observed'[q] = observed[q] /\ snapshot'[q] = snapshot[q]
           /\ committed'[q] = committed[q],
         state'[t] # "active" => observed'[t] = NotRead /\ op'[t] \in {"idle", "errored"},
         analyzed'[t] # None => /\ analyzed'[t] = schema'[t]
                                /\ state'[t] = "uninitialized" => handedOut'[t],
         pc'[t] \in {"reserving", "flushing"} => schema'[t] = GetLatestSchema,
         observed'[t] # NotRead => GetSchema(snapshot'[t]) = schema'[t],
         committed'[t] # None => GetSchema(committed'[t].ts) = schema'[t]
  PROVE  RWInv'
<1>1. CallInv'
  BY DEF RWInv, CallInv, Between
<1>2. CatalogInv'
  <2>1. lastCommit \in Int /\ lastCommit' \in Int
    BY MaxTimeAssumption DEF RWInv, Inv, TypeOK, Time
  <2> QED BY <2>1, MaxTimeAssumption DEF RWInv, CatalogInv, Time
<1>3. ValidatedSchemaInv'
  BY Zenon DEF RWInv, ValidatedSchemaInv, GetLatestSchema, GetSchema
<1>4. ReadsOnItsSchema'
  BY Zenon DEF RWInv, ReadsOnItsSchema, GetSchema, NotRead
<1>5. CommitsOnItsSchema'
  BY Zenon DEF RWInv, CommitsOnItsSchema, GetSchema
<1> QED BY Zenon, <1>1, <1>2, <1>3, <1>4, <1>5 DEF RWInv

\* A step of a schema change keeps the invariant if what transactions see of
\* the catalog stays the same.
LEMMA DdlKeeps ==
  ASSUME RWInv, Inv', RWTypeOK', CatalogInv',
         UNCHANGED rwVars,
         \A q \in Txn :
           /\ op'[q] = op[q] /\ pc'[q] = pc[q]
           /\ observed'[q] = observed[q] /\ snapshot'[q] = snapshot[q]
           /\ committed'[q] = committed[q]
           /\ pc[q] \in {"reserving", "flushing"} => catalog' = catalog
           /\ observed[q] # NotRead =>
                Visible(catalog', snapshot[q]) = Visible(catalog, snapshot[q])
           /\ committed[q] # None =>
                Visible(catalog', committed[q].ts) = Visible(catalog, committed[q].ts)
  PROVE  RWInv'
<1>1. CallInv'
  BY Zenon DEF RWInv, CallInv, Between, rwVars
<1>2. ValidatedSchemaInv'
  BY Zenon DEF RWInv, ValidatedSchemaInv, GetLatestSchema, GetSchema, rwVars
<1>3. ReadsOnItsSchema'
  BY Zenon DEF RWInv, ReadsOnItsSchema, GetSchema, NotRead, rwVars
<1>4. CommitsOnItsSchema'
  BY Zenon DEF RWInv, CommitsOnItsSchema, GetSchema, rwVars
<1> QED BY Zenon, <1>1, <1>2, <1>3, <1>4 DEF RWInv

\* There is a schema in force at every time.
LEMMA GetSchemaType ==
  ASSUME RWTypeOK, CatalogInv, NEW u \in Time
  PROVE  GetSchema(u) \in Schema
<1>1. /\ 0 \in VersionsUpTo(catalog, u) /\ u \in Nat
      /\ catalog \in [Time -> Schema \cup {None}]
  BY SchemaAssumption, MaxTimeAssumption DEF RWTypeOK, CatalogInv, VersionsUpTo, Time
<1>2. VersionsUpTo(catalog, u) \in SUBSET (0..u) /\ VersionsUpTo(catalog, u) # {}
  BY Zenon, <1>1 DEF VersionsUpTo
<1>3. Max(VersionsUpTo(catalog, u)) \in VersionsUpTo(catalog, u)
  BY <1>1, <1>2, MaxProperty, Zenon
<1> QED BY <1>1, <1>2, <1>3, MaxTimeAssumption DEF GetSchema, Visible, VersionsUpTo, Time

\* The types of the transactions' state are preserved.
LEMMA RWTypeStep == RWInv /\ [RWNext]_allVars => RWTypeOK'
<1> SUFFICES ASSUME RWInv, [RWNext]_allVars PROVE RWTypeOK'
  BY Zenon
<1>0. RWTypeOK /\ GetLatestSchema \in Schema
  BY GetSchemaType, MaxTimeAssumption DEF RWInv, GetLatestSchema, Time
<1>1. ASSUME NEW t \in Txn, Call(t) PROVE RWTypeOK'
  <2>1. ASSUME NEW o, AbortCall(t, o) PROVE RWTypeOK'
    BY Zenon, <1>0, <2>1 DEF RWTypeOK, Ops, AbortCall, Reset, Run, ddlVars, Committer
  <2>2. ASSUME NEW o \in {"read", "write", "commit"}, BeginCall(t, o) PROVE RWTypeOK'
    BY Zenon, <1>0, <2>2 DEF RWTypeOK, Ops, BeginCall, Run, ddlVars, Committer
  <2>3. ASSUME NEW o, NEW s \in {"rolledback", "invalid"}, EndCall(t, o, s)
        PROVE  RWTypeOK'
    <3>1. schema' \in [Txn -> Schema]
      BY Zenon, <1>0, <2>3 DEF RWTypeOK, EndCall
    <3> QED BY Zenon, <1>0, <2>3, <3>1 DEF RWTypeOK, Ops, EndCall, Reset, Run, ddlVars, Committer
  <2>4. CASE HandOutSchema(t)
    <3>1. schema' \in [Txn -> Schema]
      BY Zenon, <1>0, <2>4 DEF RWTypeOK, HandOutSchema
    <3>2. handedOut' \in [Txn -> BOOLEAN]
      <4>1. (handedOut[t] \/ state[t] = "uninitialized") \in BOOLEAN
        BY Zenon
      <4> QED BY Zenon, <1>0, <2>4, <4>1 DEF RWTypeOK, HandOutSchema
    <3>3. analyzed' \in [Txn -> Schema \cup {None}]
      BY Zenon, <1>0, <2>4, <3>1 DEF RWTypeOK, HandOutSchema
    <3> QED BY Zenon, <1>0, <2>4, <3>1, <3>2, <3>3 DEF RWTypeOK, HandOutSchema, ddlVars
  <2>5. CASE QueryError(t)
    BY <1>0, <2>5, Zenon DEF RWTypeOK, Ops, QueryError, AbortRunning, Reset, Run, rwVars, ddlVars,
                      Committer
  <2> QED BY Zenon, <1>1, <2>1, <2>2, <2>3, <2>4, <2>5 DEF Call, Rollback, Invalidate
<1>2. ASSUME NEW t \in Txn, DataStep(t) PROVE RWTypeOK'
  <2>1. CASE AcquireSnapshot(t)
    BY Zenon, <1>0, <2>1 DEF RWTypeOK, AcquireSnapshot, rwVars, ddlVars
  <2>2. CASE AbortOnSnapshotSchema(t)
    BY Zenon, <1>0, <2>2 DEF RWTypeOK, Ops, AbortOnSnapshotSchema, AbortRunning, Reset, Run, ddlVars,
                      Committer
  <2>3. ASSUME NEW K \in SUBSET Key, Read(t, K) \/ RecordMutationReads(t, K)
        PROVE  RWTypeOK'
    BY Zenon, <1>0, <2>3 DEF RWTypeOK, Ops, Read, RecordMutationReads, Run, rwVars, ddlVars, Committer
  <2>4. ASSUME NEW k \in Key, NEW type \in Mutations, Write(t, k, type) PROVE RWTypeOK'
    BY <1>0, <2>4 DEF RWTypeOK, Ops, Write, Run, ddlVars, Committer
  <2>5. CASE FailCall(t)
    BY Zenon, <1>0, <2>5 DEF RWTypeOK, Ops, FailCall, Reset, Run, ddlVars, Committer
  <2> QED BY Zenon, <1>2, <2>1, <2>2, <2>3, <2>4, <2>5 DEF DataStep
<1>3. ASSUME NEW t \in Txn, CommitCall(t) PROVE RWTypeOK'
  <2>1. CASE InjectAbort(t) \/ CommitAborts(t)
    BY <1>0, <2>1, Zenon DEF RWTypeOK, Ops, InjectAbort, CommitAborts, AbortRunning, Reset, Run,
                      ddlVars, Committer
  <2>2. CASE ChangeStreamError(t) \/ CommitReturns(t)
    BY Zenon, <1>0, <2>2 DEF RWTypeOK, Ops, ChangeStreamError, CommitReturns, Run, rwVars, ddlVars,
                      Committer
  <2>3. CASE Commit(t) \/ CommitValidates(t) \/ CommitProceeds(t)
    BY Zenon, <1>0, <2>3 DEF RWTypeOK, Commit, CommitValidates, CommitProceeds, rwVars, ddlVars
  <2> QED BY Zenon, <1>3, <2>1, <2>2, <2>3 DEF CommitCall
<1>4. ASSUME NEW d \in Ddl, DdlStep(d) PROVE RWTypeOK'
  <2>1. d \in Committer /\ d \in Schema
    BY Zenon DEF Committer, Schema
  <2>2. CASE AddSchema(d) \/ AddActionsForSchema(d)
    BY Zenon, <1>0, <2>1, <2>2 DEF RWTypeOK, Ops, AddSchema, AddActionsForSchema, Run, rwVars
  <2>4. CASE ApplyRetention(d)
    BY Zenon, <1>0, <2>1, <2>4 DEF RWTypeOK, Ops, ApplyRetention, Run, rwVars, ddlVars
  <2>3. CASE ChangeSchema(d) \/ EndSchemaChange(d)
    BY Zenon, <1>0, <2>3 DEF RWTypeOK, ChangeSchema, EndSchemaChange, rwVars, ddlVars
  <2> QED BY Zenon, <1>4, <2>2, <2>3, <2>4 DEF DdlStep
<1>5. CASE SystemStep \/ UNCHANGED allVars
  BY Zenon, <1>0, <1>5 DEF RWTypeOK, SystemStep, allVars, rwVars, ddlVars
<1> QED BY Zenon, <1>1, <1>2, <1>3, <1>4, <1>5 DEF RWNext

--------------------------------------------------------------------------------
(* The calls that begin, abort, fail or end a transaction, and schema changes *)

\* A call that resets the transaction keeps the invariant.
LEMMA ResetKeeps ==
  ASSUME RWInv, Inv', RWTypeOK', NEW t \in Txn, NEW s, s # "active",
         Reset(t, s), NEW o \in {"idle", "errored"}, Run(t, o),
         pc'[t] = "ready", pc[t] \in {"ready", "validating"},
         \A q \in Committer \ {t} : pc'[q] = pc[q],
         \A q \in Txn \ {t} : schema'[q] = schema[q],
         UNCHANGED <<catalog, lastCommit, commitTs, committed>>
  PROVE  RWInv'
<1>1. RWTypeOK /\ TypeOK /\ t \in Committer /\ t \notin Ddl
  BY ActorsAssumption, Zenon DEF RWInv, Inv, Committer
<1>2. \A q \in Txn : op'[q] = IF q = t THEN o ELSE op[q]
  BY Zenon, <1>1 DEF RWTypeOK, Run, Committer
<1>3. committed[t] = None
  BY Zenon, <1>1 DEF RWInv, Inv, CommittedInv
<1>4. \A q \in Txn \ {t} : pc'[q] = pc[q]
  BY Zenon DEF Committer
<1>5. \A d \in Ddl : pc'[d] = pc[d] /\ commitTs'[d] = commitTs[d]
  BY Zenon, <1>1 DEF Committer
<1>6. lastCommit' >= lastCommit
  BY <1>1, MaxTimeAssumption DEF TypeOK, Time
<1>7. /\ observed'[t] = NotRead /\ analyzed'[t] = None /\ state'[t] # "active"
      /\ op'[t] \in {"idle", "errored"} /\ committed'[t] = None
      /\ pc'[t] \notin {"reserving", "flushing"}
  BY Zenon, <1>1, <1>2, <1>3, ResetDelta
<1>8. \A q \in Txn \ {t} :
        /\ state'[q] = state[q] /\ schema'[q] = schema[q]
        /\ handedOut'[q] = handedOut[q] /\ analyzed'[q] = analyzed[q]
        /\ op'[q] = op[q] /\ pc'[q] = pc[q]
        /\ observed'[q] = observed[q] /\ snapshot'[q] = snapshot[q]
        /\ committed'[q] = committed[q]
  BY <1>1, <1>2, <1>4, ResetDelta
<1>9. /\ state'[t] # "active" => observed'[t] = NotRead /\ op'[t] \in {"idle", "errored"}
      /\ analyzed'[t] # None => /\ analyzed'[t] = schema'[t]
                                /\ state'[t] = "uninitialized" => handedOut'[t]
      /\ pc'[t] \in {"reserving", "flushing"} => schema'[t] = GetLatestSchema
      /\ observed'[t] # NotRead => GetSchema(snapshot'[t]) = schema'[t]
      /\ committed'[t] # None => GetSchema(committed'[t].ts) = schema'[t]
  BY Zenon, <1>7
<1> QED BY Zenon, <1>5, <1>6, <1>8, <1>9, TxnKeeps

\* Calls that GuardedCall aborts, rollbacks and invalidations, and calls that
\* abort or fail while they run.
LEMMA AbortsKeepInv ==
  ASSUME RWInv, Inv', RWTypeOK', NEW t \in Txn,
         \/ \E o : AbortCall(t, o)
         \/ Rollback(t) \/ Invalidate(t)
         \/ AbortOnSnapshotSchema(t) \/ InjectAbort(t) \/ FailCall(t) \/ CommitAborts(t)
         \/ (AbortRunning(t) /\ pc[t] = "ready")
  PROVE  RWInv'
<1>0. /\ pc \in [Committer -> States] /\ schema \in [Txn -> Schema]
      /\ t \in Committer
  BY Zenon DEF RWInv, Inv, TypeOK, RWTypeOK, Committer
<1>1. ASSUME AbortRunning(t), pc[t] = "ready" PROVE RWInv'
  BY Zenon, <1>0, <1>1, ResetKeeps DEF AbortRunning, ddlVars, managerVars
<1>2. ASSUME NEW o, AbortCall(t, o) PROVE RWInv'
  <2>1. \A q \in Txn \ {t} : schema'[q] = schema[q]
    BY Zenon, <1>0, <1>2 DEF AbortCall
  <2> QED BY Zenon, <1>0, <1>2, <2>1, ResetKeeps DEF AbortCall, Runnable, ddlVars, managerVars
<1>3. ASSUME NEW o, NEW s \in {"rolledback", "invalid"}, EndCall(t, o, s) PROVE RWInv'
  <2>1. \A q \in Txn \ {t} : schema'[q] = schema[q]
    BY Zenon, <1>0, <1>3 DEF EndCall
  <2> QED BY Zenon, <1>0, <1>3, <2>1, ResetKeeps DEF EndCall, ddlVars, managerVars
<1>4. CASE FailCall(t)
  BY Zenon, <1>0, <1>4, ResetKeeps DEF FailCall, ddlVars, managerVars
<1>5. CASE CommitAborts(t)
  <2>1. /\ pc'[t] = "ready" /\ pc[t] = "validating"
        /\ \A q \in Committer \ {t} : pc'[q] = pc[q]
    BY Zenon, <1>0, <1>5 DEF CommitAborts, AbortCommit, Goto
  <2> QED BY <1>5, <2>1, ResetKeeps, Zenon DEF CommitAborts, AbortCommit, ddlVars
<1> QED BY Zenon, <1>1, <1>2, <1>3, <1>4, <1>5 DEF Rollback, Invalidate, InjectAbort,
           AbortOnSnapshotSchema, HasSnapshot

\* A call that begins, and schema().
LEMMA CallsKeepInv ==
  ASSUME RWInv, Inv', RWTypeOK', NEW t \in Txn,
         (\E o \in {"read", "write", "commit"} : BeginCall(t, o)) \/ HandOutSchema(t)
  PROVE  RWInv'
<1>0. /\ RWTypeOK /\ TypeOK /\ t \in Committer
      /\ schema \in [Txn -> Schema] /\ handedOut \in [Txn -> BOOLEAN]
      /\ analyzed \in [Txn -> Schema \cup {None}] /\ lastCommit' >= lastCommit
      /\ UNCHANGED lmVars /\ catalog' = catalog
  <2>1. RWTypeOK /\ TypeOK /\ t \in Committer
    BY Zenon DEF RWInv, Inv, Committer
  <2>2. UNCHANGED lmVars /\ catalog' = catalog
    BY Zenon DEF BeginCall, HandOutSchema, ddlVars
  <2>3. lastCommit' >= lastCommit
    BY <2>1, <2>2, MaxTimeAssumption DEF TypeOK, Time, lmVars, managerVars
  <2> QED BY <2>1, <2>2, <2>3, Zenon DEF RWTypeOK
<1>1. /\ pc[t] = "ready" /\ committed[t] = None
      /\ state[t] # "active" => observed[t] = NotRead
  BY <1>0, Zenon DEF BeginCall, Runnable, HandOutSchema, RWInv, Inv, CommittedInv, CallInv
<1>2. UNCHANGED <<pc, commitTs, observed, snapshot, committed, lastCommit>>
  BY Zenon, <1>0 DEF lmVars, handleVars, managerVars
<1>3. ASSUME NEW o \in {"read", "write", "commit"}, BeginCall(t, o) PROVE RWInv'
  <2>1. /\ schema'[t] = GetLatestSchema /\ state'[t] = "active" /\ op'[t] = o
        /\ analyzed' = analyzed
        /\ \A q \in Txn \ {t} : /\ state'[q] = state[q] /\ schema'[q] = schema[q]
                                /\ op'[q] = op[q]
    BY <1>0, <1>3, Zenon DEF BeginCall, Run, RWTypeOK, Committer
  <2>2. \A q \in Txn \ {t} : handedOut'[q] = handedOut[q]
    BY Zenon, <1>0, <1>3 DEF BeginCall
  <2>3. state[t] = "active" => schema[t] = GetLatestSchema
    BY Zenon, <1>3 DEF BeginCall, SchemaReplaced
  <2>4. analyzed[t] # None => analyzed[t] = GetLatestSchema
    BY Zenon, <1>3 DEF BeginCall, SchemaReplaced, Runnable, RWInv, CallInv
  <2>5. observed[t] # NotRead => GetSchema(snapshot[t]) = schema'[t]
    BY Zenon, <1>1, <2>1, <2>3 DEF RWInv, ReadsOnItsSchema
  <2>6. /\ state'[t] # "active" => observed'[t] = NotRead /\ op'[t] \in {"idle", "errored"}
        /\ analyzed'[t] # None => /\ analyzed'[t] = schema'[t]
                                  /\ state'[t] = "uninitialized" => handedOut'[t]
        /\ pc'[t] \in {"reserving", "flushing"} => schema'[t] = GetLatestSchema
        /\ observed'[t] # NotRead => GetSchema(snapshot'[t]) = schema'[t]
        /\ committed'[t] # None => GetSchema(committed'[t].ts) = schema'[t]
    BY <1>1, <1>2, <2>1, <2>4, <2>5, ZenonT(30)
  <2> QED BY <1>0, <1>2, <2>1, <2>2, <2>6, TxnKeeps, ZenonT(30)
<1>4. CASE HandOutSchema(t)
  <2>1. /\ state' = state /\ op' = op /\ analyzed'[t] = schema'[t]
        /\ state[t] = "active" => schema'[t] = schema[t]
        /\ \A q \in Txn \ {t} : analyzed'[q] = analyzed[q] /\ schema'[q] = schema[q]
    BY <1>0, <1>4, ZenonT(30) DEF HandOutSchema
  <2>2. \A q \in Txn \ {t} : handedOut'[q] = handedOut[q]
    BY Zenon, <1>0, <1>4 DEF HandOutSchema
  <2>3. state[t] = "uninitialized" => handedOut'[t]
    BY <1>0, <1>4, ZenonT(30) DEF HandOutSchema
  <2>4. observed[t] # NotRead => GetSchema(snapshot[t]) = schema'[t]
    BY <1>1, <2>1, ZenonT(30) DEF RWInv, ReadsOnItsSchema
  <2>5. op[t] \in {"idle", "errored"}
    BY <1>4, ZenonT(30) DEF HandOutSchema, Between
  <2>6. /\ state'[t] # "active" => observed'[t] = NotRead /\ op'[t] \in {"idle", "errored"}
        /\ analyzed'[t] # None => /\ analyzed'[t] = schema'[t]
                                  /\ state'[t] = "uninitialized" => handedOut'[t]
        /\ pc'[t] \in {"reserving", "flushing"} => schema'[t] = GetLatestSchema
        /\ observed'[t] # NotRead => GetSchema(snapshot'[t]) = schema'[t]
        /\ committed'[t] # None => GetSchema(committed'[t].ts) = schema'[t]
    BY <1>1, <1>2, <2>1, <2>3, <2>4, <2>5, ZenonT(30)
  <2> QED BY <1>0, <1>2, <2>1, <2>2, <2>6, TxnKeeps, ZenonT(30)
<1> QED BY Zenon, <1>3, <1>4

--------------------------------------------------------------------------------
(* Schema changes *)

\* What a step of a schema change that leaves the catalog alone has to keep.
LEMMA DdlOnlyKeeps ==
  ASSUME RWInv, Inv', RWTypeOK', CatalogInv',
         UNCHANGED <<rwVars, catalog>>,
         \A q \in Txn :
           /\ op'[q] = op[q] /\ pc'[q] = pc[q]
           /\ observed'[q] = observed[q] /\ snapshot'[q] = snapshot[q]
           /\ committed'[q] = committed[q]
  PROVE  RWInv'
<1>1. \A q \in Txn :
        /\ op'[q] = op[q] /\ pc'[q] = pc[q]
        /\ observed'[q] = observed[q] /\ snapshot'[q] = snapshot[q]
        /\ committed'[q] = committed[q]
        /\ pc[q] \in {"reserving", "flushing"} => catalog' = catalog
        /\ observed[q] # NotRead =>
             Visible(catalog', snapshot[q]) = Visible(catalog, snapshot[q])
        /\ committed[q] # None =>
             Visible(catalog', committed[q].ts) = Visible(catalog, committed[q].ts)
  BY ZenonT(30)
<1> QED BY <1>1, DdlKeeps, ZenonT(30) DEF rwVars

\* A schema change up to its last backfilled row.
LEMMA ChangeSchemaKeepsInv ==
  ASSUME RWInv, Inv', RWTypeOK', NEW d \in Ddl, ChangeSchema(d)
  PROVE  RWInv'
<1>0. /\ d \in Committer /\ d \notin Txn /\ pc \in [Committer -> States]
      /\ commitTs \in [Committer -> Time]
  BY Zenon, ActorsAssumption DEF RWInv, Inv, TypeOK, Committer
<1>1. /\ UNCHANGED <<rwVars, catalog, op, lastCommit, committed, observed, snapshot>>
  BY Zenon DEF ChangeSchema, CallSchemaChange, EnterCommit, ReserveCommitTimestamp, Flush,
     managerVars, handleVars, ddlVars
<1>2. \A q \in Committer \ {d} : pc'[q] = pc[q] /\ commitTs'[q] = commitTs[q]
  BY Zenon, <1>0 DEF ChangeSchema, CallSchemaChange, EnterCommit, ReserveCommitTimestamp, Flush,
     Goto
<1>3. pc[d] = "flushing" => pc'[d] = "flushing" /\ commitTs'[d] = commitTs[d]
  BY Zenon, <1>0 DEF ChangeSchema, CallSchemaChange, EnterCommit, ReserveCommitTimestamp, Flush,
     Goto
<1>4. \A c \in Ddl : pc[c] = "flushing" => pc'[c] = "flushing" /\ commitTs'[c] = commitTs[c]
  BY Zenon, <1>2, <1>3 DEF Committer
<1>5. CatalogInv'
  BY <1>1, <1>4 DEF RWInv, CatalogInv
<1>6. \A q \in Txn :
        /\ op'[q] = op[q] /\ pc'[q] = pc[q]
        /\ observed'[q] = observed[q] /\ snapshot'[q] = snapshot[q]
        /\ committed'[q] = committed[q]
  BY Zenon, <1>0, <1>1, <1>2 DEF Committer
<1> QED BY <1>1, <1>5, <1>6, DdlOnlyKeeps, ZenonT(30)

\* A new schema is later than everything transactions have read or committed.
LEMMA AddSchemaKeepsInv ==
  ASSUME RWInv, Inv', RWTypeOK', NEW d \in Ddl, AddSchema(d)
  PROVE  RWInv'
<1>0. /\ d \in Committer /\ d \notin Txn /\ op \in [Committer -> Ops]
      /\ catalog \in [Time -> Schema \cup {None}]
      /\ commitTs[d] \in Time /\ lastCommit \in Time
      /\ pc[d] = "flushing" /\ commitMu = d
      /\ commitTs[d] > lastCommit /\ commitTs[d] \in pending
  BY Zenon, ActorsAssumption DEF RWInv, Inv, TypeOK, RWTypeOK, Committer, AddSchema, MutexInv,
     PendingInv
<1>1. UNCHANGED rwVars /\ UNCHANGED <<pc, commitTs, observed, snapshot, committed, lastCommit>>
  BY ZenonT(30) DEF AddSchema, lmVars, managerVars, handleVars
<1>2. \A s \in Time : s # commitTs[d] => catalog'[s] = catalog[s]
  BY <1>0, ZenonT(30) DEF AddSchema
<1>3. CatalogInv'
  <2>1. catalog'[0] = catalog[0]
    BY <1>0, <1>2, MaxTimeAssumption DEF Time
  <2> QED BY <1>0, <1>1, <1>2, <2>1, ZenonT(30) DEF RWInv, CatalogInv
<1>4. ASSUME NEW u \in Time, u < commitTs[d]
      PROVE  Visible(catalog', u) = Visible(catalog, u)
  <2>1. \A s \in 0..u : catalog'[s] = catalog[s]
    BY <1>0, <1>2, <1>4, MaxTimeAssumption DEF Time
  <2> QED BY Zenon, <2>1, VisibleAgrees
<1>5. ASSUME NEW q \in Txn
      PROVE  /\ op'[q] = op[q]
             /\ pc[q] \in {"reserving", "flushing"} => catalog' = catalog
             /\ observed[q] # NotRead =>
                  Visible(catalog', snapshot[q]) = Visible(catalog, snapshot[q])
             /\ committed[q] # None =>
                  Visible(catalog', committed[q].ts) = Visible(catalog, committed[q].ts)
  <2>0. /\ q \in Committer /\ q # d /\ snapshot[q] \in Time \cup {None}
        /\ observed[q] \in [Key -> Value \cup {None}]
    BY Zenon, <1>0 DEF Committer, RWInv, Inv, TypeOK
  <2>1. op'[q] = op[q]
    BY <1>0, <2>0, Zenon DEF AddSchema, Run
  <2>2. pc[q] \notin {"reserving", "flushing"}
    BY Zenon, <1>0, <2>0 DEF RWInv, Inv, MutexInv
  <2>3. ASSUME observed[q] # NotRead
        PROVE  Visible(catalog', snapshot[q]) = Visible(catalog, snapshot[q])
    <3>1. PICK k \in Key : observed[q][k] # None
      BY Zenon, <2>0, <2>3 DEF NotRead
    <3>2. Settled(q)
      BY <2>0, <3>1, ZenonT(30) DEF RWInv, Inv, ReadInv
    <3>3. snapshot[q] \in Time /\ commitTs[d] > snapshot[q]
      BY <1>0, <2>0, <3>2, ZenonT(30) DEF Settled, RWInv, Inv, SnapshotInv, NoPendingUpTo
    <3>4. snapshot[q] < commitTs[d]
      BY Zenon, <1>0, <3>3, MaxTimeAssumption DEF Time
    <3> QED BY Zenon, <1>4, <3>3, <3>4
  <2>4. ASSUME committed[q] # None
        PROVE  Visible(catalog', committed[q].ts) = Visible(catalog, committed[q].ts)
    <3>1. committed[q].ts \in 1..lastCommit
      BY Zenon, <2>0, <2>4 DEF RWInv, Inv, CommittedInv
    <3>2. committed[q].ts \in Time /\ committed[q].ts < commitTs[d]
      BY <1>0, <3>1, MaxTimeAssumption DEF Time
    <3> QED BY Zenon, <1>4, <3>2
  <2> QED BY Zenon, <2>1, <2>2, <2>3, <2>4
<1>6. \A q \in Txn :
        /\ op'[q] = op[q] /\ pc'[q] = pc[q]
        /\ observed'[q] = observed[q] /\ snapshot'[q] = snapshot[q]
        /\ committed'[q] = committed[q]
        /\ pc[q] \in {"reserving", "flushing"} => catalog' = catalog
        /\ observed[q] # NotRead =>
             Visible(catalog', snapshot[q]) = Visible(catalog, snapshot[q])
        /\ committed[q] # None =>
             Visible(catalog', committed[q].ts) = Visible(catalog, committed[q].ts)
  BY <1>1, <1>5, Zenon
<1> QED BY <1>1, <1>3, <1>6, DdlKeeps, ZenonT(30)

\* The registry, and the end of a schema change, leave the catalog alone.
LEMMA EndSchemaChangeKeepsInv ==
  ASSUME RWInv, Inv', RWTypeOK', NEW d \in Ddl,
         AddActionsForSchema(d) \/ ApplyRetention(d) \/ EndSchemaChange(d)
  PROVE  RWInv'
<1>0. /\ d \in Committer /\ d \notin Txn /\ pc \in [Committer -> States]
      /\ observed \in [Committer -> [Key -> Value \cup {None}]]
      /\ snapshot \in [Committer -> Time \cup {None}]
      /\ committed \in [Committer -> Serial!Result \cup {None}]
      /\ op \in [Committer -> Ops]
      /\ commitTs[d] \in Time /\ lastCommit \in Time
  BY ActorsAssumption, Zenon DEF RWInv, Inv, TypeOK, RWTypeOK, Committer
<1>1. UNCHANGED <<rwVars, catalog, commitTs>>
  BY Zenon DEF AddActionsForSchema, ApplyRetention, SetVersionRetentionPeriod, EndSchemaChange,
     MarkCommitted, LeaveCommit, ddlVars, lmVars
<1>2. ASSUME NEW q \in Txn
      PROVE  /\ op'[q] = op[q] /\ pc'[q] = pc[q]
             /\ observed'[q] = observed[q] /\ snapshot'[q] = snapshot[q]
             /\ committed'[q] = committed[q]
  <2>0. q \in Committer /\ q # d
    BY Zenon, <1>0 DEF Committer
  <2>1. CASE AddActionsForSchema(d)
    BY Zenon, <1>0, <2>0, <2>1 DEF AddActionsForSchema, Run, lmVars, handleVars
  <2>2. CASE EndSchemaChange(d)
    BY <1>0, <2>0, <2>2, ZenonT(30) DEF EndSchemaChange, MarkCommitted, LeaveCommit, Forget, Goto,
       handleVars
  <2>3. CASE ApplyRetention(d)
    BY Zenon, <1>0, <2>0, <2>3 DEF ApplyRetention, SetVersionRetentionPeriod, Run, handleVars
  <2> QED BY <2>1, <2>2, <2>3, ZenonT(30)
<1>3. CatalogInv'
  <2>3. CASE ApplyRetention(d)
    <3>1. UNCHANGED <<lastCommit, pc>>
      BY <2>3, Zenon DEF ApplyRetention, SetVersionRetentionPeriod, managerVars
    <3> QED BY <1>1, <3>1, ZenonT(30) DEF RWInv, CatalogInv
  <2>1. CASE AddActionsForSchema(d) \/ LeaveCommit(d)
    <3>1. lastCommit' = lastCommit
      BY Zenon, <2>1 DEF AddActionsForSchema, LeaveCommit, lmVars, managerVars
    <3>2. \A c \in Ddl : pc[c] = "flushing" => pc'[c] = "flushing"
      BY Zenon, <1>0, <2>1 DEF AddActionsForSchema, LeaveCommit, Goto, lmVars, Committer
    <3> QED BY <1>1, <3>1, <3>2, ZenonT(30) DEF RWInv, CatalogInv
  <2>2. CASE MarkCommitted(d)
    <3>1. /\ pc[d] = "flushing" /\ commitTs[d] > lastCommit /\ lastCommit' = commitTs[d]
          /\ commitMu = d
      BY <1>0, <2>2, MaxTimeAssumption, Zenon
         DEF MarkCommitted, Goto, RWInv, Inv, PendingInv, MutexInv, Time
    <3>2. ASSUME NEW c \in Ddl, pc[c] = "flushing" PROVE c = d
      BY <3>1, <3>2, Zenon DEF RWInv, Inv, MutexInv, Committer
    <3>3. ASSUME NEW s \in Time, catalog[s] # None, s > lastCommit' PROVE FALSE
      <4>1. s > lastCommit
        BY <1>0, <3>1, <3>3, MaxTimeAssumption DEF Time
      <4>2. PICK c \in Ddl : pc[c] = "flushing" /\ commitTs[c] = s
        BY Zenon, <3>3, <4>1 DEF RWInv, CatalogInv
      <4>3. s = lastCommit'
        BY Zenon, <3>1, <3>2, <4>2
      <4> QED BY <3>3, <4>3, MaxTimeAssumption DEF Time
    <3> QED BY <1>1, <3>3, Zenon DEF RWInv, CatalogInv
  <2> QED BY Zenon, <2>1, <2>2, <2>3 DEF EndSchemaChange
<1> QED BY <1>1, <1>2, <1>3, DdlOnlyKeeps, ZenonT(30)

================================================================================
