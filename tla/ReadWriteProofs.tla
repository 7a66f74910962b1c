---------------------------- MODULE ReadWriteProofs ----------------------------
(******************************************************************************)
(* The data operations and the commit of a read-write transaction keep its    *)
(* invariant.  From it: the schema a transaction runs on is the one in force  *)
(* at its snapshot and at its commit, a request runs on the schema it was     *)
(* analyzed against, and errors reported as final hold in the latest state.   *)
(* The last section is what readers beside the protocol rely on.              *)
(******************************************************************************)
EXTENDS ReadWriteInv, LockManagerProofs

\* Read-write transactions are serializable in commit timestamp order.
THEOREM TransactionsAreSerializable == RWSpec => []Serializable
<1> QED BY TransactionsUseTheProtocol, CommitsAreSerializable, PTL DEF UsesTheProtocol

\* What a step inside a call of t leaves alone.
Running(t) ==
  /\ UNCHANGED <<state, schema, handedOut, analyzed, catalog>>
  /\ lastCommit' >= lastCommit
  /\ \A d \in Ddl : pc'[d] = pc[d] /\ commitTs'[d] = commitTs[d]
  /\ \A q \in Txn \ {t} : /\ op'[q] = op[q] /\ pc'[q] = pc[q]
                          /\ observed'[q] = observed[q] /\ snapshot'[q] = snapshot[q]
                          /\ committed'[q] = committed[q]

\* Such a step keeps the invariant if what it reads or commits is under the
\* transaction's schema.
LEMMA RunningKeeps ==
  ASSUME RWInv, Inv', RWTypeOK', NEW t \in Txn, Running(t),
         (op'[t] = op[t] /\ observed'[t] = observed[t]) \/ state[t] = "active",
         pc'[t] \in {"reserving", "flushing"} => schema[t] = GetLatestSchema,
         observed'[t] # NotRead => GetSchema(snapshot'[t]) = schema[t],
         committed'[t] # None => GetSchema(committed'[t].ts) = schema[t]
  PROVE  RWInv'
<1>1. /\ state' = state /\ schema' = schema /\ analyzed' = analyzed /\ catalog' = catalog
      /\ handedOut' = handedOut
      /\ lastCommit' >= lastCommit
      /\ \A d \in Ddl : pc'[d] = pc[d] /\ commitTs'[d] = commitTs[d]
  BY Zenon DEF Running
<1>2. \A q \in Txn \ {t} :
        /\ state'[q] = state[q] /\ schema'[q] = schema[q]
        /\ handedOut'[q] = handedOut[q] /\ analyzed'[q] = analyzed[q]
        /\ op'[q] = op[q] /\ pc'[q] = pc[q]
        /\ observed'[q] = observed[q] /\ snapshot'[q] = snapshot[q]
        /\ committed'[q] = committed[q]
  BY Zenon DEF Running
<1>3. /\ state[t] # "active" => observed[t] = NotRead /\ op[t] \in {"idle", "errored"}
      /\ analyzed[t] # None => /\ analyzed[t] = schema[t]
                               /\ state[t] = "uninitialized" => handedOut[t]
  BY Zenon DEF RWInv, CallInv, Between
<1>4. state'[t] # "active" => observed'[t] = NotRead /\ op'[t] \in {"idle", "errored"}
  BY Zenon, <1>1, <1>3
<1>5. analyzed'[t] # None => /\ analyzed'[t] = schema'[t]
                             /\ state'[t] = "uninitialized" => handedOut'[t]
  BY Zenon, <1>1, <1>3
<1>6. /\ pc'[t] \in {"reserving", "flushing"} => schema'[t] = GetLatestSchema
      /\ observed'[t] # NotRead => GetSchema(snapshot'[t]) = schema'[t]
      /\ committed'[t] # None => GetSchema(committed'[t].ts) = schema'[t]
  BY Zenon, <1>1
<1> QED BY Zenon, <1>1, <1>2, <1>4, <1>5, <1>6, TxnKeeps

\* What the invariant says of one transaction.
LEMMA OfOne ==
  ASSUME RWInv, NEW t \in Txn
  PROVE  /\ t \in Committer /\ t \notin Ddl /\ lastCommit \in Int
         /\ pc \in [Committer -> States]
         /\ snapshot \in [Committer -> Time \cup {None}]
         /\ observed \in [Committer -> [Key -> Value \cup {None}]]
         /\ op \in [Committer -> Ops]
         /\ op[t] \notin {"idle", "errored"} => state[t] = "active"
         /\ pc[t] \in {"reserving", "flushing"} => schema[t] = GetLatestSchema
         /\ observed[t] # NotRead => GetSchema(snapshot[t]) = schema[t]
         /\ observed[t] # NotRead => snapshot[t] # None
         /\ committed[t] # None => GetSchema(committed[t].ts) = schema[t]
<1>0. /\ t \in Committer /\ t \notin Ddl /\ lastCommit \in Int
      /\ pc \in [Committer -> States]
      /\ snapshot \in [Committer -> Time \cup {None}]
      /\ observed \in [Committer -> [Key -> Value \cup {None}]]
      /\ op \in [Committer -> Ops]
  BY ActorsAssumption, MaxTimeAssumption
     DEF RWInv, Inv, TypeOK, RWTypeOK, Committer, Time
<1>1. ASSUME observed[t] # NotRead PROVE snapshot[t] # None
  <2>1. PICK k \in Key : observed[t][k] # None
    BY Zenon, <1>0, <1>1 DEF NotRead
  <2> QED BY Zenon, <1>0, <2>1 DEF RWInv, Inv, ReadInv, Settled
<1> QED BY Zenon, <1>0, <1>1 DEF RWInv, CallInv, Between, ReadsOnItsSchema, CommitsOnItsSchema,
           ValidatedSchemaInv

\* Taking the snapshot.
LEMMA SnapshotKeepsInv ==
  ASSUME RWInv, Inv', RWTypeOK', NEW t \in Txn, AcquireSnapshot(t)
  PROVE  RWInv'
<1>1. /\ UNCHANGED <<lastCommit, commitTs, observed, committed>>
      /\ \A q \in Committer \ {t} : pc'[q] = pc[q] /\ snapshot'[q] = snapshot[q]
      /\ pc'[t] \in {"picking", "due", "ready"}
      /\ observed[t] # NotRead => snapshot'[t] = snapshot[t]
  BY Zenon, OfOne DEF AcquireSnapshot, PickSnapshot, SnapshotDue, SnapshotSafe, Goto,
     managerVars, handleVars
<1>2. Running(t) /\ op' = op
  BY <1>1, OfOne DEF Running, AcquireSnapshot, rwVars, ddlVars, Committer
<1>3. /\ observed'[t] # NotRead => GetSchema(snapshot'[t]) = schema[t]
      /\ committed'[t] # None => GetSchema(committed'[t].ts) = schema[t]
  BY Zenon, <1>1, OfOne
<1> QED BY Zenon, <1>1, <1>2, <1>3, RunningKeeps

\* Reading at the snapshot.
LEMMA ReadKeepsInv ==
  ASSUME RWInv, Inv', RWTypeOK', NEW t \in Txn, NEW K \in SUBSET Key,
         Read(t, K) \/ RecordMutationReads(t, K)
  PROVE  RWInv'
<1>1. /\ UNCHANGED <<lastCommit, commitTs, committed, pc, snapshot>>
      /\ \A q \in Committer \ {t} : observed'[q] = observed[q] /\ op'[q] = op[q]
      /\ pc[t] = "ready" /\ GetSchema(snapshot[t]) = schema[t] /\ state[t] = "active"
  BY Zenon, OfOne DEF Read, RecordMutationReads, ReadRows, managerVars, HasSnapshot,
     SnapshotSchemaDiffers, Run
<1>0. UNCHANGED <<state, schema, handedOut, analyzed, catalog>>
  BY Zenon DEF Read, RecordMutationReads, rwVars, ddlVars
<1>2. Running(t)
  BY <1>0, <1>1, OfOne DEF Running, Committer
<1>3. committed'[t] # None => GetSchema(committed'[t].ts) = schema[t]
  BY Zenon, <1>1, OfOne
<1> QED BY Zenon, <1>1, <1>2, <1>3, RunningKeeps

\* Steps that change at most the buffer and the call: an applied mutation, an
\* error of the query engine or of the change streams.
LEMMA WriteKeepsInv ==
  ASSUME RWInv, Inv', RWTypeOK', NEW t \in Txn, state[t] = "active",
         UNCHANGED <<state, schema, handedOut, analyzed, catalog>>,
         UNCHANGED <<lastCommit, commitTs, committed, pc, snapshot, observed>>,
         NEW o, Run(t, o)
  PROVE  RWInv'
<1>1. \A q \in Committer \ {t} : op'[q] = op[q]
  BY Zenon, OfOne DEF Run
<1>2. Running(t)
  BY <1>1, OfOne DEF Running, Committer
<1>3. /\ pc'[t] \in {"reserving", "flushing"} => schema[t] = GetLatestSchema
      /\ observed'[t] # NotRead => GetSchema(snapshot'[t]) = schema[t]
      /\ committed'[t] # None => GetSchema(committed'[t].ts) = schema[t]
  BY Zenon, OfOne
<1> QED BY Zenon, <1>2, <1>3, RunningKeeps

\* The data operations that neither abort nor fail, and the call of Commit.
LEMMA DataKeepsInv ==
  ASSUME RWInv, Inv', RWTypeOK', NEW t \in Txn,
         \/ AcquireSnapshot(t)
         \/ \E K \in SUBSET Key : Read(t, K) \/ RecordMutationReads(t, K)
         \/ \E k \in Key, type \in Mutations : Write(t, k, type)
         \/ QueryError(t)
         \/ ChangeStreamError(t)
         \/ Commit(t)
  PROVE  RWInv'
<1>1. ASSUME NEW k \in Key, NEW type \in Mutations, Write(t, k, type) PROVE RWInv'
  <2>1. /\ UNCHANGED <<lastCommit, commitTs, committed, pc, snapshot, observed>>
        /\ UNCHANGED <<state, schema, handedOut, analyzed, catalog>>
    BY Zenon, <1>1 DEF Write, BufferWrite, managerVars, lmVars, handleVars, ddlVars
  <2>2. op[t] = "applying" /\ \E o : Run(t, o)
    BY Zenon, <1>1 DEF Write
  <2> QED BY Zenon, <2>1, <2>2, OfOne, WriteKeepsInv
<1>2. CASE ChangeStreamError(t)
  <2>1. /\ UNCHANGED <<lastCommit, commitTs, committed, pc, snapshot, observed>>
        /\ UNCHANGED <<state, schema, handedOut, analyzed, catalog>>
    BY Zenon, <1>2 DEF ChangeStreamError, managerVars, lmVars, handleVars, rwVars, ddlVars
  <2>2. op[t] = "commit" /\ Run(t, "failing")
    BY Zenon, <1>2 DEF ChangeStreamError
  <2> QED BY Zenon, <2>1, <2>2, OfOne, WriteKeepsInv
<1>3. CASE QueryError(t)
  <2>1. CASE ReadSetIsStale(t)
    BY Zenon, <1>3, <2>1, AbortsKeepInv DEF QueryError
  <2>2. CASE ~ReadSetIsStale(t)
    <3>1. /\ UNCHANGED <<lastCommit, commitTs, committed, pc, snapshot, observed>>
          /\ UNCHANGED <<state, schema, handedOut, analyzed, catalog>>
      BY Zenon, <1>3, <2>2 DEF QueryError, managerVars, lmVars, handleVars, rwVars, ddlVars
    <3>2. state[t] = "active" /\ Run(t, "errored")
      BY Zenon, <1>3, <2>2 DEF QueryError
    <3> QED BY Zenon, <3>1, <3>2, WriteKeepsInv
  <2> QED BY Zenon, <2>1, <2>2
<1>4. CASE Commit(t)
  <2>1. /\ UNCHANGED <<lastCommit, commitTs, committed, snapshot, observed>>
        /\ UNCHANGED <<state, schema, handedOut, analyzed, catalog, op>>
    BY Zenon, <1>4 DEF Commit, CallCommit, managerVars, handleVars, rwVars, ddlVars
  <2>2. pc'[t] = "entering" /\ \A q \in Committer \ {t} : pc'[q] = pc[q]
    BY Zenon, <1>4, OfOne DEF Commit, CallCommit, Goto
  <2>3. Running(t)
    BY <2>1, <2>2, OfOne DEF Running, Committer
  <2>4. /\ observed'[t] # NotRead => GetSchema(snapshot'[t]) = schema[t]
        /\ committed'[t] # None => GetSchema(committed'[t].ts) = schema[t]
    BY Zenon, <2>1, OfOne
  <2> QED BY Zenon, <2>1, <2>2, <2>3, <2>4, RunningKeeps
<1> QED BY Zenon, <1>1, <1>2, <1>3, <1>4, SnapshotKeepsInv, ReadKeepsInv

\* While a transaction flushes, every schema in the catalog is older than its
\* commit, so the latest schema is the one in force at its timestamp.
LEMMA NoNewerSchema ==
  ASSUME RWInv, NEW t \in Txn, pc[t] = "flushing"
  PROVE  GetSchema(commitTs[t]) = GetLatestSchema
<1>1. /\ t \in Committer /\ commitTs[t] \in Time /\ commitTs[t] > lastCommit
      /\ commitMu = t /\ lastCommit \in Time
  BY Zenon DEF RWInv, Inv, TypeOK, PendingInv, MutexInv, Committer
<1>2. ASSUME NEW u \in Time, commitTs[t] < u PROVE catalog[u] = None
  <2>1. ASSUME NEW d \in Ddl, pc[d] = "flushing" PROVE FALSE
    BY <1>1, <2>1, ActorsAssumption DEF RWInv, Inv, MutexInv, Committer
  <2>2. u > lastCommit
    BY <1>1, <1>2, MaxTimeAssumption DEF Time
  <2> QED BY Zenon, <2>1, <2>2 DEF RWInv, CatalogInv
<1>3. MaxTime \in Time /\ commitTs[t] <= MaxTime
  BY <1>1, MaxTimeAssumption DEF Time
<1> QED BY Zenon, <1>1, <1>2, <1>3, VisibleUnchanged DEF GetSchema, GetLatestSchema

\* Validation, and the critical section up to the flush.
LEMMA CommitKeepsInv ==
  ASSUME RWInv, Inv', RWTypeOK', NEW t \in Txn,
         UNCHANGED <<state, schema, handedOut, analyzed, catalog, op>>,
         UNCHANGED <<lastCommit, committed, snapshot, observed>>,
         \A q \in Committer \ {t} : pc'[q] = pc[q] /\ commitTs'[q] = commitTs[q],
         pc'[t] \in {"reserving", "flushing"} => schema[t] = GetLatestSchema
  PROVE  RWInv'
<1>1. Running(t)
  BY OfOne DEF Running, Committer
<1>2. /\ observed'[t] # NotRead => GetSchema(snapshot'[t]) = schema[t]
      /\ committed'[t] # None => GetSchema(committed'[t].ts) = schema[t]
  BY Zenon, OfOne
<1> QED BY Zenon, <1>1, <1>2, RunningKeeps

\* MarkCommitted of a transaction.
LEMMA MarkKeepsInv ==
  ASSUME RWInv, Inv', RWTypeOK', NEW t \in Txn, MarkCommitted(t),
         UNCHANGED <<rwVars, op, ddlVars>>
  PROVE  RWInv'
<1>0. /\ committed \in [Committer -> Serial!Result \cup {None}]
      /\ t \in Committer /\ commitTs[t] \in Int /\ lastCommit \in Int
  BY MaxTimeAssumption DEF RWInv, Inv, TypeOK, Committer, Time
<1>1. /\ pc[t] = "flushing" /\ pc'[t] = "leaving"
      /\ \A q \in Committer \ {t} : pc'[q] = pc[q] /\ committed'[q] = committed[q]
      /\ committed'[t].ts = commitTs[t]
      /\ UNCHANGED <<snapshot, observed, commitTs>>
  BY Zenon, <1>0, OfOne DEF MarkCommitted, Goto, handleVars
<1>2. lastCommit' >= lastCommit
  BY <1>0 DEF MarkCommitted
<1>3. Running(t) /\ op' = op
  BY Zenon, <1>1, <1>2, OfOne DEF Running, Committer, rwVars, ddlVars
<1>4. /\ observed'[t] # NotRead => GetSchema(snapshot'[t]) = schema[t]
      /\ GetSchema(committed'[t].ts) = schema[t]
  BY Zenon, <1>1, OfOne, NoNewerSchema
<1> QED BY Zenon, <1>1, <1>3, <1>4, RunningKeeps

\* The rest of a transaction's commit.
LEMMA CommitCallKeepsInv ==
  ASSUME RWInv, Inv', RWTypeOK', NEW t \in Txn,
         CommitValidates(t) \/ CommitProceeds(t) \/ CommitReturns(t)
  PROVE  RWInv'
<1>0. t \in Committer /\ commitTs \in [Committer -> Time]
  BY Zenon DEF RWInv, Inv, TypeOK, Committer
<1>1. CASE CommitValidates(t)
  <2>1. /\ UNCHANGED <<state, schema, handedOut, analyzed, catalog, op>>
        /\ UNCHANGED <<lastCommit, committed, snapshot, observed>>
        /\ schema[t] = GetLatestSchema
    BY Zenon, <1>1 DEF CommitValidates, PrecheckFails, ValidateReadSet, managerVars, handleVars,
       rwVars, ddlVars
  <2>2. \A q \in Committer \ {t} : pc'[q] = pc[q] /\ commitTs'[q] = commitTs[q]
    BY <1>1, OfOne, Zenon DEF CommitValidates, ValidateReadSet, Goto
  <2> QED BY <2>1, <2>2, CommitKeepsInv, Zenon
<1>2. ASSUME CommitProceeds(t), ~MarkCommitted(t) PROVE RWInv'
  <2>1. /\ UNCHANGED <<state, schema, handedOut, analyzed, catalog, op>>
        /\ UNCHANGED <<lastCommit, committed, snapshot, observed>>
    BY Zenon, <1>2 DEF CommitProceeds, EnterCommit, ReserveCommitTimestamp, Flush, managerVars,
       handleVars, rwVars, ddlVars
  <2>2. \A q \in Committer \ {t} : pc'[q] = pc[q] /\ commitTs'[q] = commitTs[q]
    BY Zenon, <1>0, <1>2, OfOne DEF CommitProceeds, EnterCommit, ReserveCommitTimestamp, Flush,
       Goto
  <2>3. pc'[t] \in {"reserving", "flushing"} => pc[t] \in {"reserving", "flushing"}
    BY Zenon, <1>0, <1>2, OfOne DEF CommitProceeds, EnterCommit, ReserveCommitTimestamp, Flush,
       Goto
  <2> QED BY <2>1, <2>2, <2>3, OfOne, CommitKeepsInv, ZenonT(30)
<1>3. CASE MarkCommitted(t) /\ CommitProceeds(t)
  BY Zenon, <1>3, MarkKeepsInv DEF CommitProceeds
<1>4. CASE CommitReturns(t)
  <2>1. /\ UNCHANGED <<schema, handedOut, analyzed, catalog, lastCommit, commitTs,
                       committed>>
        /\ pc'[t] = "done" /\ \A q \in Committer \ {t} : pc'[q] = pc[q]
    BY <1>4, OfOne, Zenon DEF CommitReturns, LeaveCommit, Goto, ddlVars
  <2>2. /\ observed'[t] = NotRead
        /\ \A q \in Committer \ {t} : /\ observed'[q] = observed[q]
                                      /\ snapshot'[q] = snapshot[q]
    BY <1>4, OfOne, ZenonT(30) DEF CommitReturns, LeaveCommit, Forget
  <2>3. /\ op'[t] = "idle" /\ state'[t] = "committed"
        /\ \A q \in Txn \ {t} : op'[q] = op[q] /\ state'[q] = state[q]
    BY <1>4, OfOne DEF CommitReturns, Run, RWInv, RWTypeOK, Committer
  <2>4. \A q \in Txn \ {t} :
          /\ state'[q] = state[q] /\ schema'[q] = schema[q]
          /\ handedOut'[q] = handedOut[q] /\ analyzed'[q] = analyzed[q]
          /\ op'[q] = op[q] /\ pc'[q] = pc[q]
          /\ observed'[q] = observed[q] /\ snapshot'[q] = snapshot[q]
          /\ committed'[q] = committed[q]
    BY <2>1, <2>2, <2>3, Zenon DEF Committer
  <2>5. /\ lastCommit' >= lastCommit
        /\ \A d \in Ddl : pc'[d] = pc[d] /\ commitTs'[d] = commitTs[d]
    <3>1. /\ lastCommit' = lastCommit /\ commitTs' = commitTs
          /\ \A q \in Committer \ {t} : pc'[q] = pc[q]
      BY <2>1, Zenon
    <3>2. \A d \in Ddl : d \in Committer \ {t}
      BY OfOne, Zenon DEF Committer
    <3>3. lastCommit \in Int
      BY OfOne, ZenonT(30)
    <3>4. lastCommit' >= lastCommit
      BY <3>1, <3>3
    <3> QED BY <3>1, <3>2, <3>4, Zenon
  <2>6. analyzed[t] # None => analyzed[t] = schema[t]
    BY Zenon DEF RWInv, CallInv
  <2>7. /\ state'[t] # "active" => observed'[t] = NotRead /\ op'[t] \in {"idle", "errored"}
        /\ analyzed'[t] # None => /\ analyzed'[t] = schema'[t]
                                  /\ state'[t] = "uninitialized" => handedOut'[t]
        /\ pc'[t] \in {"reserving", "flushing"} => schema'[t] = GetLatestSchema
        /\ observed'[t] # NotRead => GetSchema(snapshot'[t]) = schema'[t]
    BY <2>1, <2>2, <2>3, <2>6, ZenonT(30)
  <2>8. committed'[t] # None => GetSchema(committed'[t].ts) = schema'[t]
    BY Zenon, <2>1, OfOne
  <2> QED BY <2>1, <2>4, <2>5, <2>7, <2>8, TxnKeeps, ZenonT(30)
<1> QED BY <1>1, <1>2, <1>3, <1>4

--------------------------------------------------------------------------------
(* Every step keeps the invariant, and what follows from it *)

\* Every step of transactions and schema changes keeps the invariant.
LEMMA RWInvStep == RWInv /\ [RWNext]_allVars => RWInv'
<1> SUFFICES ASSUME RWInv, [RWNext]_allVars PROVE RWInv'
  BY Zenon
<1>0. Inv' /\ RWTypeOK'
  BY Zenon, RWStepIsAStep, InvStep, RWTypeStep DEF RWInv
<1>1. ASSUME NEW t \in Txn, Call(t) PROVE RWInv'
  BY Zenon, <1>0, <1>1, AbortsKeepInv, CallsKeepInv, DataKeepsInv DEF Call
<1>2. ASSUME NEW t \in Txn, DataStep(t) PROVE RWInv'
  BY Zenon, <1>0, <1>2, AbortsKeepInv, DataKeepsInv DEF DataStep
<1>3. ASSUME NEW t \in Txn, CommitCall(t) PROVE RWInv'
  BY Zenon, <1>0, <1>3, AbortsKeepInv, DataKeepsInv, CommitCallKeepsInv DEF CommitCall
<1>4. ASSUME NEW d \in Ddl, DdlStep(d) PROVE RWInv'
  BY Zenon, <1>0, <1>4, ChangeSchemaKeepsInv, AddSchemaKeepsInv, EndSchemaChangeKeepsInv
     DEF DdlStep
<1>5. CASE SystemStep \/ UNCHANGED allVars
  <2>1. /\ UNCHANGED <<rwVars, op, catalog>>
        /\ UNCHANGED <<lastCommit, pc, commitTs, observed, snapshot, committed>>
    BY Zenon, <1>5 DEF SystemStep, Tick, Dispense, Idle, allVars, lmVars, managerVars,
       handleVars, ddlVars
  <2>2. CatalogInv'
    BY Zenon, <2>1 DEF RWInv, CatalogInv
  <2>3. \A q \in Txn :
          /\ op'[q] = op[q] /\ pc'[q] = pc[q]
          /\ observed'[q] = observed[q] /\ snapshot'[q] = snapshot[q]
          /\ committed'[q] = committed[q]
    BY Zenon, <2>1
  <2>4. UNCHANGED <<rwVars, catalog>>
    BY Zenon, <2>1
  <2> QED BY Zenon, <1>0, <2>2, <2>3, <2>4, DdlOnlyKeeps
<1> QED BY Zenon, <1>1, <1>2, <1>3, <1>4, <1>5 DEF RWNext

\* The invariant holds in every reachable state.
THEOREM RWInvariance == RWSpec => []RWInv
<1>1. RWInit => RWTypeOK /\ CatalogInv
  BY SchemaAssumption, MaxTimeAssumption
     DEF RWInit, RWTypeOK, Ops, CatalogInv, Schema, Time, Init
<1>2. RWInit => CallInv /\ ValidatedSchemaInv /\ ReadsOnItsSchema /\ CommitsOnItsSchema
  BY DEF RWInit, Init, CallInv, Between, ValidatedSchemaInv, ReadsOnItsSchema,
         CommitsOnItsSchema, Committer
<1>3. RWSpec => []Inv
  BY TransactionsUseTheProtocol, Invariance, PTL DEF UsesTheProtocol
<1>4. RWInit /\ Inv => RWInv
  BY Zenon, <1>1, <1>2 DEF RWInv
<1> QED BY <1>3, <1>4, RWInvStep, PTL DEF RWSpec

\* The state of transactions and schema changes stays well typed.
THEOREM RWTypes == RWSpec => []RWTypeOK
<1>1. RWInv => RWTypeOK
  BY Zenon DEF RWInv
<1> QED BY <1>1, RWInvariance, PTL

\* Every commit takes effect under the schema in force at its timestamp (the
\* precheck of ReadWriteTransaction::Commit).
THEOREM CommitsUseTheirSchema == RWSpec => []CommitsOnItsSchema
<1>1. RWInv => CommitsOnItsSchema
  BY Zenon DEF RWInv
<1> QED BY <1>1, RWInvariance, PTL

\* Every read is under the schema in force at the snapshot (AcquireSnapshot).
THEOREM ReadsUseTheirSchema == RWSpec => []ReadsOnItsSchema
<1>1. RWInv => ReadsOnItsSchema
  BY Zenon DEF RWInv
<1> QED BY <1>1, RWInvariance, PTL

\* Every call runs on the schema its request was analyzed against (GuardedCall).
THEOREM CallsRunOnAnalyzedSchema == RWSpec => []RunsOnAnalyzedSchema
<1>1. RWInv => RunsOnAnalyzedSchema
  BY Zenon DEF RWInv, CallInv, RunsOnAnalyzedSchema
<1> QED BY <1>1, RWInvariance, PTL

\* An error is final only if the read set is not stale (AbortIfReadSetStale,
\* MaybeAbortOnStaleReads).
LEMMA FinalErrors ==
  ASSUME RWInv, [RWNext]_allVars, NEW t \in Txn, op[t] # "errored", op'[t] = "errored"
  PROVE  pc[t] = "ready" /\ ~ReadSetIsStale(t)
<1>0. op \in [Committer -> Ops]
  BY Zenon DEF RWInv, RWTypeOK
<1>1. ASSUME NEW q \in Committer, NEW o, Run(q, o) PROVE q = t /\ o = "errored"
  BY Zenon, <1>0, <1>1 DEF Run, Committer
<1>2. ASSUME NEW q \in Txn, Call(q) PROVE QueryError(q)
  <2>0. q \in Committer
    BY Zenon DEF Committer
  <2>1. ASSUME NEW o, AbortCall(q, o) PROVE FALSE
    <3>1. Run(q, "idle")
      BY Zenon, <2>1 DEF AbortCall
    <3> QED BY <1>1, <2>0, <3>1
  <2>2. ASSUME NEW o \in {"read", "write", "commit"}, BeginCall(q, o) PROVE FALSE
    <3>1. Run(q, o)
      BY Zenon, <2>2 DEF BeginCall
    <3> QED BY Zenon, <1>1, <2>0, <3>1
  <2>3. ASSUME NEW o, NEW s, EndCall(q, o, s) PROVE FALSE
    <3>1. Run(q, "idle")
      BY Zenon, <2>3 DEF EndCall
    <3> QED BY <1>1, <2>0, <3>1
  <2>4. CASE HandOutSchema(q)
    BY <2>4, ZenonT(30) DEF HandOutSchema
  <2> QED BY Zenon, <1>2, <2>1, <2>2, <2>3, <2>4 DEF Call, Rollback, Invalidate
<1>3. ASSUME NEW q \in Txn, QueryError(q) PROVE pc[t] = "ready" /\ ~ReadSetIsStale(t)
  <2>0. q \in Committer
    BY Zenon DEF Committer
  <2>1. ASSUME AbortRunning(q) PROVE FALSE
    <3>1. Run(q, "idle")
      BY Zenon, <2>1 DEF AbortRunning
    <3> QED BY <1>1, <2>0, <3>1
  <2>2. pc[q] = "ready" /\ ~ReadSetIsStale(q) /\ Run(q, "errored")
    BY Zenon, <1>3, <2>1 DEF QueryError
  <2> QED BY Zenon, <1>1, <2>0, <2>2
<1>4. ASSUME NEW q \in Txn, DataStep(q) PROVE FailCall(q)
  <2>0. q \in Committer
    BY Zenon DEF Committer
  <2>1. ASSUME AcquireSnapshot(q) PROVE FALSE
    BY Zenon, <2>1 DEF AcquireSnapshot
  <2>2. ASSUME AbortOnSnapshotSchema(q) PROVE FALSE
    <3>1. Run(q, "idle")
      BY Zenon, <2>2 DEF AbortOnSnapshotSchema, AbortRunning
    <3> QED BY <1>1, <2>0, <3>1
  <2>3. ASSUME NEW K, Read(q, K) \/ RecordMutationReads(q, K) PROVE FALSE
    <3>1. Run(q, "idle") \/ Run(q, "applying")
      BY Zenon, <2>3 DEF Read, RecordMutationReads
    <3> QED BY <1>1, <2>0, <3>1
  <2>4. ASSUME NEW k, NEW type, Write(q, k, type) PROVE FALSE
    <3>1. PICK o \in {"applying", "idle", "failing"} : Run(q, o)
      BY Zenon, <2>4 DEF Write
    <3> QED BY Zenon, <1>1, <2>0, <3>1
  <2> QED BY Zenon, <1>4, <2>1, <2>2, <2>3, <2>4 DEF DataStep
<1>5. ASSUME NEW q \in Txn, FailCall(q) PROVE pc[t] = "ready" /\ ~ReadSetIsStale(t)
  <2>0. q \in Committer
    BY Zenon DEF Committer
  <2>1. /\ pc[q] = "ready"
        /\ Run(q, IF ReadSetIsStale(q) THEN "idle" ELSE "errored")
    BY Zenon, <1>5 DEF FailCall
  <2>2. q = t /\ (IF ReadSetIsStale(q) THEN "idle" ELSE "errored") = "errored"
    BY <1>1, <2>0, <2>1
  <2>3. ~ReadSetIsStale(q)
    BY Zenon, <2>2
  <2> QED BY Zenon, <2>1, <2>2, <2>3
<1>6. ASSUME NEW q \in Txn, CommitCall(q) PROVE FALSE
  <2>0. q \in Committer
    BY Zenon DEF Committer
  <2>1. op' = op \/ \E o \in {"idle", "failing"} : Run(q, o)
    BY <1>6, Zenon DEF CommitCall, InjectAbort, AbortRunning, ChangeStreamError, Commit,
       CommitAborts, CommitValidates, CommitProceeds, CommitReturns
  <2> QED BY Zenon, <1>1, <2>0, <2>1
<1>7. ASSUME NEW d \in Ddl, DdlStep(d) PROVE FALSE
  <2>0. d \in Committer
    BY Zenon DEF Committer
  <2>1. op' = op \/ \E o \in {"added", "registered", "finished"} : Run(d, o)
    BY Zenon, <1>7 DEF DdlStep, ChangeSchema, AddSchema, AddActionsForSchema, ApplyRetention,
       EndSchemaChange
  <2> QED BY Zenon, <1>1, <2>0, <2>1
<1>8. ASSUME SystemStep \/ UNCHANGED allVars PROVE FALSE
  BY Zenon, <1>8 DEF SystemStep, allVars
<1> QED BY <1>2, <1>3, <1>4, <1>5, <1>6, <1>7, <1>8, ZenonT(30) DEF RWNext

\* What a read set that is not stale has observed is what the database holds at
\* the last completed commit.
LEMMA FreshReads ==
  ASSUME RWInv, NEW t \in Txn, ~ReadSetIsStale(t), NEW k \in Key, observed[t][k] # None
  PROVE  observed[t][k] = ValueAt(k, lastCommit)
<1>0. /\ t \in Committer /\ Settled(t) /\ k \in readSet[t]
      /\ observed[t][k] = ValueAt(k, snapshot[t]) \/ Missed(t, k)
  BY Zenon DEF RWInv, Inv, ReadInv, Committer
<1>1. /\ t \in Committer /\ Settled(t) /\ k \in readSet[t]
      /\ observed[t][k] = ValueAt(k, snapshot[t])
  BY Zenon, <1>0 DEF Settled, ReadSetIsStale, HasVersionsAfter, Missed
<1>2. /\ snapshot[t] \in Time /\ lastCommit \in Time
      /\ \A u \in Time : u > snapshot[t] => versions[k][u] = None
  BY Zenon, <1>1 DEF Settled, ReadSetIsStale, HasVersionsAfter, RWInv, Inv, TypeOK
<1>3. CASE snapshot[t] <= lastCommit
  <2>1. \A u \in Time : snapshot[t] < u /\ u <= lastCommit => versions[k][u] = None
    BY Zenon, <1>2, MaxTimeAssumption DEF Time
  <2> QED BY Zenon, <1>1, <1>2, <1>3, <2>1, VisibleUnchanged DEF ValueAt
<1>4. CASE lastCommit <= snapshot[t]
  <2>1. ASSUME NEW u \in Time, lastCommit < u, u <= snapshot[t] PROVE versions[k][u] = None
    <3>1. SUFFICES ASSUME versions[k][u] # None PROVE FALSE
      BY Zenon
    <3>2. u > lastCommit
      BY Zenon, <1>2, <2>1, MaxTimeAssumption DEF Time
    <3>3. PICK p \in Committer : pc[p] = "flushing" /\ commitTs[p] = u
      BY Zenon, <3>1, <3>2 DEF RWInv, Inv, VersionsInv
    <3>4. u \in pending /\ NoPendingUpTo(snapshot[t])
      BY Zenon, <1>1, <3>3 DEF RWInv, Inv, PendingInv, SnapshotInv
    <3> QED BY <1>2, <2>1, <3>4, MaxTimeAssumption DEF NoPendingUpTo, Time
  <2>2. Visible(versions[k], lastCommit) = Visible(versions[k], snapshot[t])
    BY Zenon, <1>2, <1>4, <2>1, VisibleUnchanged
  <2> QED BY Zenon, <1>1, <2>2 DEF ValueAt
<1> QED BY <1>2, <1>3, <1>4, MaxTimeAssumption DEF Time

\* A constraint or query error that is reported as final holds in the latest
\* committed state (AbortIfReadSetStale).
THEOREM FinalErrorsHold == RWSpec => ErrorsHoldNow
<1> DEFINE Holds ==
      \A t \in Txn :
        op[t] # "errored" /\ op'[t] = "errored" =>
          \A k \in Key : observed[t][k] \in {None, ValueAt(k, lastCommit)}
<1>1. RWInv /\ [RWNext]_allVars => Holds
  BY Zenon, FinalErrors, FreshReads
<1>2. RWInv /\ [RWNext]_allVars => [Holds]_allVars
  BY Zenon, <1>1
<1> HIDE DEF Holds
<1>3. RWSpec => [][Holds]_allVars
  BY <1>2, RWInvariance, PTL DEF RWSpec
<1> QED BY Zenon, <1>3 DEF Holds, ErrorsHoldNow

--------------------------------------------------------------------------------
(* What a step of the protocol leaves of the past *)

\* No commit can still get the timestamp s or an earlier one.
Frozen(s) == s <= lastDispensed /\ NoPendingUpTo(s)

\* Times and bounds are integers.
LEMMA Integral == (\A z \in Time : z \in Int) /\ (\A n \in Nat : n \in Int)
BY MaxTimeAssumption DEF Time

\* The clocks of the protocol hold times, before and after a step.
LEMMA ClockTypes ==
  /\ Inv => lastDispensed \in Time /\ lastCommit \in Time /\ systemTime \in Time
  /\ Inv' => lastDispensed' \in Time /\ lastCommit' \in Time /\ systemTime' \in Time
BY Zenon DEF Inv, TypeOK

\* The clock goes on, and what is frozen stays as it is.
MovesOn ==
  /\ lastDispensed <= lastDispensed' /\ lastCommit <= lastCommit'
  /\ ~SystemClockMayStepBack => systemTime <= systemTime'
  /\ \A s \in Time : Frozen(s) => s <= lastDispensed' /\ \A c \in pending' : c > s
  /\ \A s \in Time, k \in Key : Frozen(s) => ValueAt(k, s)' = ValueAt(k, s)
  /\ \A k \in Key : oldest[k] <= oldest'[k]

\* Only Clock::Now, the reservation of a timestamp and the end of a commit change
\* the clock and the pending timestamps.
LEMMA ClockSteps ==
  ASSUME [Next]_lmVars
  PROVE  /\ lastDispensed' = lastDispensed \/ Now
         /\ systemTime' = systemTime \/ Tick
         /\ \/ UNCHANGED <<pending, lastCommit>>
            \/ \E p \in Committer : MarkCommitted(p) \/ ReserveCommitTimestamp(p)
BY Zenon DEF Next, Idle, TxnStep, CommitStep, Tick, Dispense, Now, PickSnapshot, SnapshotDue,
       SnapshotSafe, ReadRows, BufferWrite, UnlockAll, CallCommit,
       SetVersionRetentionPeriod, clockVars, managerVars, CallSchemaChange,
       ValidateReadSet, AbortCommit, EnterCommit, Flush,
       ReserveCommitTimestamp, MarkCommitted, LeaveCommit, lmVars

\* Every step moves on.
LEMMA StepsMoveOn == ASSUME Inv, [Next]_lmVars PROVE MovesOn
<1>0. /\ lastDispensed \in Time /\ lastCommit \in Time /\ systemTime \in Time
      /\ pending \in SUBSET Time /\ commitTs \in [Committer -> Time]
      /\ oldest \in [Key -> Time] /\ TypeOK /\ MaxTime \in Nat
      /\ versions \in [Key -> [Time -> Value \cup {None}]]
  BY Zenon, MaxTimeAssumption DEF Inv, TypeOK
<1>1. lastDispensed <= lastDispensed' /\ lastDispensed' \in Time
  BY <1>0, ClockSteps, NowIsLater DEF Time
<1>2. ~SystemClockMayStepBack => systemTime <= systemTime'
  BY <1>0, ClockSteps DEF Tick, Time
<1>3. lastCommit <= lastCommit'
  <2>1. ASSUME NEW p \in Committer, MarkCommitted(p) PROVE lastCommit <= lastCommit'
    BY <1>0, <2>1 DEF MarkCommitted, Time
  <2>2. ASSUME NEW p \in Committer, ReserveCommitTimestamp(p) PROVE lastCommit' = lastCommit
    BY Zenon, <2>2 DEF ReserveCommitTimestamp
  <2> QED BY <1>0, <2>1, <2>2, ClockSteps DEF Time
<1>4. ASSUME NEW s \in Time, Frozen(s)
      PROVE  s <= lastDispensed' /\ \A c \in pending' : c > s
  <2>1. s <= lastDispensed /\ \A c \in pending : c > s
    BY Zenon, <1>4 DEF Frozen, NoPendingUpTo
  <2>2. ASSUME NEW p \in Committer, MarkCommitted(p) PROVE pending' \subseteq pending
    BY Zenon, <2>2 DEF MarkCommitted
  <2>3. ASSUME NEW p \in Committer, ReserveCommitTimestamp(p)
        PROVE  \A c \in pending' : c > s
    <3>1. pending' = pending \cup {NowValue} /\ Now
      BY Zenon, <2>3 DEF ReserveCommitTimestamp
    <3>2. NowValue \in Time /\ NowValue > lastDispensed
      BY Zenon, <1>0, <3>1, NowIsLater
    <3> QED BY <1>0, <2>1, <3>1, <3>2 DEF Time
  <2>4. \A c \in pending' : c > s
    BY Zenon, <2>1, <2>2, <2>3, ClockSteps
  <2> QED BY <1>0, <1>1, <2>1, <2>4 DEF Time
<1>5. ASSUME NEW p \in Committer, NEW j \in Key, Flush(p, j), NEW k \in Key
      PROVE  /\ oldest[k] <= oldest'[k]
             /\ \A s \in Time : Frozen(s) => ValueAt(k, s)' = ValueAt(k, s)
  <2>1. oldest[j] <= OldestLeft(j, commitTs[p])
    BY Zenon, <1>0, OldestLeftType
  <2>2. oldest[k] <= oldest'[k]
    BY <1>0, <1>5, <2>1 DEF Flush, Time
  <2>3. ASSUME NEW s \in Time, Frozen(s) PROVE ValueAt(k, s)' = ValueAt(k, s)
    <3>1. commitTs[p] \in Time /\ commitTs[p] > s
      BY Zenon, <1>0, <1>5, <2>3 DEF Inv, PendingInv, Frozen, NoPendingUpTo, Flush
    <3>2. \A u \in Time : u # commitTs[p] => versions'[k][u] = versions[k][u]
      BY Zenon, <1>0, <1>5, <3>1 DEF Flush
    <3>3. \A u \in 0..s : versions'[k][u] = versions[k][u]
      BY <1>0, <3>1, <3>2 DEF Time
    <3> QED BY Zenon, <3>3, VisibleAgrees DEF ValueAt
  <2> QED BY Zenon, <2>2, <2>3
<1>6. /\ \A s \in Time, k \in Key : Frozen(s) => ValueAt(k, s)' = ValueAt(k, s)
      /\ \A k \in Key : oldest[k] <= oldest'[k]
  <2>1. CASE UNCHANGED <<versions, oldest>>
    <3>1. \A k \in Key : oldest[k] \in Int
      BY <1>0 DEF Time
    <3> QED BY <2>1, <3>1 DEF ValueAt
  <2> QED BY Zenon, <1>5, <2>1, OnlyFlushWrites
<1> QED BY Zenon, <1>1, <1>2, <1>3, <1>4, <1>6 DEF MovesOn

\* A schema enters the catalog at the timestamp of the running schema change.
LEMMA CatalogSteps ==
  ASSUME [RWNext]_allVars
  PROVE  \/ UNCHANGED catalog
         \/ \E d \in Ddl : /\ pc[d] = "flushing"
                           /\ catalog' = [catalog EXCEPT ![commitTs[d]] = d]
<1>1. ASSUME NEW t \in Txn, Call(t) PROVE UNCHANGED catalog
  BY Zenon, <1>1 DEF Call, AbortCall, BeginCall, Rollback, Invalidate, EndCall, HandOutSchema,
     QueryError, AbortRunning, ddlVars
<1>2. ASSUME NEW t \in Txn, DataStep(t) PROVE UNCHANGED catalog
  BY Zenon, <1>2 DEF DataStep, AcquireSnapshot, AbortOnSnapshotSchema, AbortRunning, Read,
     RecordMutationReads, Write, FailCall, ddlVars
<1>3. ASSUME NEW t \in Txn, CommitCall(t) PROVE UNCHANGED catalog
  BY Zenon, <1>3 DEF CommitCall, InjectAbort, AbortRunning, ChangeStreamError, Commit,
     CommitAborts, CommitValidates, CommitProceeds, CommitReturns, ddlVars
<1>4. ASSUME NEW d \in Ddl, ChangeSchema(d) \/ AddActionsForSchema(d) \/ ApplyRetention(d)
                              \/ EndSchemaChange(d)
      PROVE  UNCHANGED catalog
  BY Zenon, <1>4 DEF ChangeSchema, AddActionsForSchema, ApplyRetention, EndSchemaChange, ddlVars
<1>5. ASSUME NEW d \in Ddl, AddSchema(d)
      PROVE  \/ UNCHANGED catalog
             \/ pc[d] = "flushing" /\ catalog' = [catalog EXCEPT ![commitTs[d]] = d]
  BY Zenon, <1>5 DEF AddSchema
<1>6. CASE SystemStep \/ UNCHANGED allVars
  BY Zenon, <1>6 DEF SystemStep, allVars, ddlVars
<1> QED BY <1>1, <1>2, <1>3, <1>4, <1>5, <1>6 DEF RWNext, DdlStep

================================================================================
