-------------------------- MODULE ReadWriteTransaction --------------------------
(******************************************************************************)
(* Read-write transactions and schema changes on top of the commit protocol:  *)
(* ReadWriteTransaction (its state machine, GuardedCall, the schema it runs   *)
(* on, mutations and constraint errors), the schema versions of               *)
(* VersionedCatalog, and the registry of ActionManager.                       *)
(*                                                                            *)
(* Every action is a LockManager action, or leaves the protocol's state       *)
(* alone, together with what the transaction does around it.  mu_ of the      *)
(* transaction is held for a whole call, so op[t] is "idle" or "errored"      *)
(* between two calls and names the running call otherwise.  Calls that        *)
(* GuardedCall rejects change nothing and have no action.                     *)
(******************************************************************************)
EXTENDS LockManager

CONSTANT InitialSchema   \* the schema the database was created with

Schema == Ddl \cup {InitialSchema}

ASSUME SchemaAssumption == InitialSchema \notin Ddl \cup {None}

VARIABLES
  state,      \* ReadWriteTransaction::state_
  schema,     \* ReadWriteTransaction::schema_
  handedOut,  \* ReadWriteTransaction::schema_handed_out_
  deleted,    \* ReadWriteTransaction::deleted_key_ranges_by_table_, as keys
  op,         \* the call that runs, and how far a schema change is
  analyzed,   \* history: the schema the client's request was analyzed against
  catalog,    \* VersionedCatalog::schemas_: the schema created at each time
  period,     \* VersionedCatalog::version_retention_period_
  registered  \* ActionManager::latest_schema_

rwVars  == <<state, schema, handedOut, deleted, analyzed>>
ddlVars == <<catalog, period, registered>>
allVars == <<lmVars, rwVars, op, ddlVars>>

Between(t)   == op[t] \in {"idle", "errored"}
Run(t, o)    == op' = [op EXCEPT ![t] = o]

--------------------------------------------------------------------------------
(* VersionedCatalog *)

\* The newest schema created at or before t.
GetSchema(t) == Visible(catalog, t)

GetLatestSchema == GetSchema(MaxTime)

--------------------------------------------------------------------------------
(* GuardedCall *)

\* Reset, and the state_ its caller leaves: the snapshot, the read set and the
\* buffered writes are forgotten, the deleted ranges are not.
Reset(t, s) ==
  /\ Forget(t)
  /\ handedOut' = [handedOut EXCEPT ![t] = FALSE]
  /\ analyzed' = [analyzed EXCEPT ![t] = None]
  /\ state' = [state EXCEPT ![t] = s]
  /\ UNCHANGED deleted

SchemaReplaced_Bug(t, o) == state[t] = "active" /\ schema[t] # GetLatestSchema

\* A schema change has replaced the schema of an active transaction, or the one
\* that schema() handed out before the call (a rollback does not mind).
SchemaReplaced(t, o) ==
  /\ schema[t] # GetLatestSchema
  /\ \/ state[t] = "active"
     \/ state[t] = "uninitialized" /\ handedOut[t] /\ o # "rollback"

\* The latest schema is in the catalog, but its actions are not registered yet.
Unregistered(t) == state[t] = "uninitialized" /\ registered # GetLatestSchema

Runnable(t) == pc[t] = "ready" /\ Between(t) /\ state[t] \in {"uninitialized", "active"}

\* A call that GuardedCall aborts before it runs.
AbortCall(t, o) ==
  /\ Runnable(t)
  /\ SchemaReplaced(t, o) \/ Unregistered(t)
  /\ Reset(t, "uninitialized")
  /\ schema' = IF SchemaReplaced(t, o) THEN schema
               ELSE [schema EXCEPT ![t] = GetLatestSchema]
  /\ Run(t, "idle")
  /\ UNCHANGED <<clockVars, managerVars, versions, gcVars, pc, commitTs, committed, ddlVars>>

\* A read, write or commit that GuardedCall lets run; its body follows.
BeginCall(t, o) ==
  /\ Runnable(t)
  /\ ~SchemaReplaced(t, o) /\ ~Unregistered(t)
  /\ schema' = [schema EXCEPT ![t] = GetLatestSchema]
  /\ handedOut' = [handedOut EXCEPT ![t] = FALSE]
  /\ state' = [state EXCEPT ![t] = "active"]
  /\ Run(t, o)
  /\ UNCHANGED <<lmVars, deleted, analyzed, ddlVars>>

\* Rollback and Invalidate: the whole call.
EndCall(t, o, s) ==
  /\ pc[t] = "ready" /\ Between(t)
  /\ \/ Runnable(t) /\ ~SchemaReplaced(t, o) /\ ~Unregistered(t)
     \/ state[t] = "invalid" /\ o = "rollback"
  /\ Reset(t, s)
  /\ schema' = IF state[t] = "invalid" THEN schema
               ELSE [schema EXCEPT ![t] = GetLatestSchema]
  /\ Run(t, "idle")
  /\ UNCHANGED <<clockVars, managerVars, versions, gcVars, pc, commitTs, committed, ddlVars>>

Rollback(t)   == EndCall(t, "rollback", "rolledback")
Invalidate(t) == EndCall(t, "invalidate", "invalid")

\* The running call fails with ABORTED: the transaction can start over.
AbortRunning(t) ==
  /\ Reset(t, "uninitialized")
  /\ Run(t, "idle")
  /\ UNCHANGED <<clockVars, managerVars, versions, gcVars, pc, commitTs, committed, schema,
                 ddlVars>>

FailCall_Bug(t) ==
  /\ op[t] = "failing" /\ pc[t] = "ready"
  /\ Reset(t, "uninitialized")
  /\ Run(t, "errored")
  /\ UNCHANGED <<clockVars, managerVars, versions, gcVars, pc, commitTs, committed, schema,
                 ddlVars>>

\* AbortIfReadSetStale: a constraint error is final, unless the read set has
\* changed since the snapshot it was raised against.
FailCall(t) ==
  /\ op[t] = "failing" /\ pc[t] = "ready"
  /\ Reset(t, "uninitialized")
  /\ Run(t, IF ReadSetIsStale(t) THEN "idle" ELSE "errored")
  /\ UNCHANGED <<clockVars, managerVars, versions, gcVars, pc, commitTs, committed, schema,
                 ddlVars>>

--------------------------------------------------------------------------------
(* Calls *)

\* schema(): before the first data operation the latest schema is handed out.
HandOutSchema(t) ==
  /\ pc[t] = "ready" /\ Between(t)
  /\ state[t] \in {"uninitialized", "active"}
  /\ schema' = IF state[t] = "active" THEN schema
               ELSE [schema EXCEPT ![t] = GetLatestSchema]
  /\ handedOut' = [handedOut EXCEPT ![t] = @ \/ state[t] = "uninitialized"]
  /\ analyzed' = [analyzed EXCEPT ![t] = schema'[t]]
  /\ UNCHANGED <<lmVars, state, deleted, op, ddlVars>>

\* AcquireSnapshot: the first data operation takes the snapshot.
AcquireSnapshot(t) ==
  /\ op[t] \in {"read", "write"}
  /\ PickSnapshot(t) \/ SnapshotDue(t) \/ SnapshotSafe(t)
  /\ UNCHANGED <<rwVars, op, ddlVars>>

HasSnapshot(t, o) == op[t] = o /\ pc[t] = "ready" /\ snapshot[t] # None

SnapshotSchemaDiffers_Bug(t) == FALSE

\* AcquireSnapshot: a schema change committed before the snapshot.
SnapshotSchemaDiffers(t) == GetSchema(snapshot[t]) # schema[t]

AbortOnSnapshotSchema(t) ==
  /\ HasSnapshot(t, "read") \/ HasSnapshot(t, "write")
  /\ SnapshotSchemaDiffers(t)
  /\ AbortRunning(t)

Read(t, K) ==
  /\ HasSnapshot(t, "read")
  /\ ~SnapshotSchemaDiffers(t)
  /\ ReadRows(t, K)
  /\ Run(t, "idle")
  /\ UNCHANGED <<rwVars, ddlVars>>

\* MaybeAbortOnStaleReads: the query engine reports an error in what was read.
QueryError(t) ==
  /\ pc[t] = "ready" /\ Between(t) /\ state[t] = "active"
  /\ IF ReadSetIsStale(t) THEN AbortRunning(t)
     ELSE Run(t, "errored") /\ UNCHANGED <<lmVars, rwVars, ddlVars>>

\* Write, first part: the rows of all the mutation's ops join the read set
\* before any of the ops is applied.
RecordMutationReads(t, K) ==
  /\ HasSnapshot(t, "write")
  /\ ~SnapshotSchemaDiffers(t)
  /\ ReadRows(t, K)
  /\ Run(t, "applying")
  /\ UNCHANGED <<rwVars, ddlVars>>

InStorage(t, k) == StoredAt(k, snapshot[t]) # Absent
Buffered(t, k)  == buffer[t][k] \notin {None, Touch}

\* Exists: the row as the transaction sees it, with its own writes.
Exists(t, k) == IF Buffered(t, k) THEN buffer[t][k] # Absent ELSE InStorage(t, k)

\* What is buffered for the row by a mutation of each type that goes through.
BufferedOp(t, k, type) ==
  IF type # "delete" THEN t
  ELSE IF Buffered(t, k) /\ ~InStorage(t, k) THEN Touch ELSE Absent

\* The mutation's own error: a row that exists already, that does not exist, or
\* that lies in a deleted range.
Violates(t, k, type) ==
  \/ type = "insert" /\ Exists(t, k)
  \/ type = "update" /\ (k \in deleted[t] \/ ~Exists(t, k))

Mutations == {"insert", "update", "insertOrUpdate", "replace", "delete"}

\* Write, second part: one op of the mutation is applied to the transaction
\* store, or fails.  Deleted ranges grow with a delete and shrink when a deleted
\* row is inserted again.
Write(t, k, type) ==
  /\ op[t] = "applying"
  /\ k \in readSet[t]
  /\ deleted' = [deleted EXCEPT ![t] =
                   CASE type = "delete" -> @ \cup {k}
                     [] type \in {"insert", "insertOrUpdate"} -> @ \ {k}
                     [] OTHER -> @]
  /\ IF Violates(t, k, type) \/ (type = "delete" /\ ~Exists(t, k))
       THEN UNCHANGED lmVars
       ELSE BufferWrite(t, k, BufferedOp(t, k, type))
  /\ \E next \in {"applying", "idle"} :
       Run(t, IF Violates(t, k, type) THEN "failing" ELSE next)
  /\ UNCHANGED <<state, schema, handedOut, analyzed, ddlVars>>

\* Commit, before the critical section: an injected abort, or an error from the
\* change stream records it writes.
InjectAbort(t) == op[t] = "commit" /\ pc[t] = "ready" /\ AbortRunning(t)

ChangeStreamError(t) ==
  /\ op[t] = "commit" /\ pc[t] = "ready"
  /\ Run(t, "failing")
  /\ UNCHANGED <<lmVars, rwVars, ddlVars>>

Commit(t) ==
  /\ op[t] = "commit"
  /\ CallCommit(t)
  /\ UNCHANGED <<rwVars, op, ddlVars>>

PrecheckFails_Bug(t) == FALSE

\* The precheck, inside the critical section: the schema has changed.
PrecheckFails(t) == schema[t] # GetLatestSchema

CommitAborts(t) ==
  /\ PrecheckFails(t) \/ ReadSetIsStale(t)
  /\ AbortCommit(t)
  /\ Reset(t, "uninitialized")
  /\ Run(t, "idle")
  /\ UNCHANGED <<schema, ddlVars>>

CommitValidates_Bug(t) ==
  /\ ~PrecheckFails(t)
  /\ buffer[t] = NotWritten \/ ~ReadSetIsStale(t)
  /\ Goto(t, "validating", "reserving")
  /\ UNCHANGED <<clockVars, managerVars, versions, gcVars, handleVars, commitTs, committed>>
  /\ UNCHANGED <<rwVars, op, ddlVars>>

CommitValidates(t) ==
  /\ ~PrecheckFails(t)
  /\ ValidateReadSet(t)
  /\ UNCHANGED <<rwVars, op, ddlVars>>

\* The rest of the critical section, and the transaction's last state.
CommitProceeds(t) ==
  /\ \/ EnterCommit(t)
     \/ ReserveCommitTimestamp(t)
     \/ \E k \in Key : Flush(t, k)
     \/ MarkCommitted(t)
  /\ UNCHANGED <<rwVars, op, ddlVars>>

CommitReturns(t) ==
  /\ LeaveCommit(t)
  /\ state' = [state EXCEPT ![t] = "committed"]
  /\ Run(t, "idle")
  /\ UNCHANGED <<schema, handedOut, deleted, analyzed, ddlVars>>

--------------------------------------------------------------------------------
(* Schema changes *)

\* UpdateSchema waits for the critical section, reserves its timestamp and
\* backfills rows.
ChangeSchema(d) ==
  /\ \/ CallSchemaChange(d)
     \/ EnterCommit(d)
     \/ ReserveCommitTimestamp(d)
     \/ \E k \in Key : Flush(d, k)
  /\ UNCHANGED <<rwVars, op, ddlVars>>

\* The DDL is applied, and its schema enters the catalog at the reserved
\* timestamp with its retention period.  It fails, or none of its statements
\* succeeds, and there is no new schema.
AddSchema(d) ==
  /\ pc[d] = "flushing" /\ op[d] = "idle"
  /\ \A k \in Key : ~ToFlush(d, k)
  /\ \/ /\ catalog' = [catalog EXCEPT ![commitTs[d]] = d]
        /\ period' \in Retentions
        /\ Run(d, "added")
     \/ /\ UNCHANGED <<catalog, period>>
        /\ Run(d, "registered") \/ Run(d, "finished")
  /\ UNCHANGED <<lmVars, rwVars, registered>>

AddActionsForSchema(d) ==
  /\ op[d] = "added"
  /\ registered' = GetLatestSchema
  /\ Run(d, "registered")
  /\ UNCHANGED <<lmVars, rwVars, catalog, period>>

\* The storage takes over the catalog's retention period.
ApplyRetention(d) ==
  /\ op[d] = "registered"
  /\ SetVersionRetentionPeriod(d)
  /\ retention' = period
  /\ Run(d, "finished")
  /\ UNCHANGED <<rwVars, ddlVars>>

\* ~ScopedSchemaChangeLock.
EndSchemaChange(d) ==
  /\ op[d] = "finished"
  /\ MarkCommitted(d) \/ LeaveCommit(d)
  /\ UNCHANGED <<rwVars, op, ddlVars>>

--------------------------------------------------------------------------------
(* Specification *)

RWInit ==
  /\ Init
  /\ state = [t \in Txn |-> "uninitialized"]
  /\ schema = [t \in Txn |-> InitialSchema]
  /\ handedOut = [t \in Txn |-> FALSE]
  /\ deleted = [t \in Txn |-> {}]
  /\ op = [p \in Committer |-> "idle"]
  /\ analyzed = [t \in Txn |-> None]
  /\ catalog = [s \in Time |-> IF s = 0 THEN InitialSchema ELSE None]
  /\ period = retention
  /\ registered = InitialSchema

Call(t) ==
  \/ \E o \in {"read", "write", "commit"} : AbortCall(t, o) \/ BeginCall(t, o)
  \/ \E o \in {"rollback", "invalidate"} : AbortCall(t, o)
  \/ Rollback(t)
  \/ Invalidate(t)
  \/ HandOutSchema(t)
  \/ QueryError(t)

DataStep(t) ==
  \/ AcquireSnapshot(t)
  \/ AbortOnSnapshotSchema(t)
  \/ \E K \in SUBSET Key : Read(t, K) \/ RecordMutationReads(t, K)
  \/ \E k \in Key, type \in Mutations : Write(t, k, type)
  \/ FailCall(t)

CommitCall(t) ==
  \/ InjectAbort(t)
  \/ ChangeStreamError(t)
  \/ Commit(t)
  \/ CommitAborts(t)
  \/ CommitValidates(t)
  \/ CommitProceeds(t)
  \/ CommitReturns(t)

DdlStep(d) ==
  \/ ChangeSchema(d)
  \/ AddSchema(d)
  \/ AddActionsForSchema(d)
  \/ ApplyRetention(d)
  \/ EndSchemaChange(d)

SystemStep == (Tick \/ Dispense \/ Idle) /\ UNCHANGED <<rwVars, op, ddlVars>>

RWNext ==
  \/ \E t \in Txn : Call(t) \/ DataStep(t) \/ CommitCall(t)
  \/ \E d \in Ddl : DdlStep(d)
  \/ SystemStep

RWSpec == RWInit /\ [][RWNext]_allVars

--------------------------------------------------------------------------------
(* Properties *)

Ops == {"idle", "errored", "read", "write", "applying", "failing", "commit", "added",
        "registered", "finished"}

\* The types of the transactions' own state.
RWTypeOK ==
  /\ state \in [Txn -> {"uninitialized", "active", "committed", "rolledback", "invalid"}]
  /\ schema \in [Txn -> Schema]
  /\ handedOut \in [Txn -> BOOLEAN]
  /\ deleted \in [Txn -> SUBSET Key]
  /\ op \in [Committer -> Ops]
  /\ analyzed \in [Txn -> Schema \cup {None}]
  /\ catalog \in [Time -> Schema \cup {None}]
  /\ period \in Retentions
  /\ registered \in Schema

\* Transactions and schema changes use the commit protocol as the protocol's
\* own specification allows, so everything proved of it holds of them.
UsesTheProtocol == Spec

\* A commit takes effect under the schema that is in force at its timestamp,
\* although the schema was read long before and no lock protects it (the
\* precheck of ReadWriteTransaction::Commit).
CommitsOnItsSchema ==
  \A t \in Txn : committed[t] # None => GetSchema(committed[t].ts) = schema[t]

\* Everything a transaction has read was read under the schema that was in
\* force at its snapshot, even when a schema change was in flight while the
\* snapshot was taken (AcquireSnapshot).
ReadsOnItsSchema ==
  \A t \in Txn : observed[t] # NotRead => GetSchema(snapshot[t]) = schema[t]

\* A request runs on the schema it was analyzed against, or not at all
\* (schema_handed_out_ in GuardedCall).
RunsOnAnalyzedSchema ==
  \A t \in Txn : ~Between(t) => analyzed[t] \in {None, schema[t]}

\* An error that is reported as final holds in the latest committed state: what
\* the transaction read, and the error was raised from, is still what a read
\* at the last completed commit returns (AbortIfReadSetStale).
ErrorsHoldNow ==
  [][\A t \in Txn :
       op[t] # "errored" /\ op'[t] = "errored" =>
         \A k \in Key : observed[t][k] \in {None, ValueAt(k, lastCommit)}]_allVars
================================================================================
