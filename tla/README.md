# A formal model of the Cloud Spanner emulator's data path

This directory holds TLA+ models of the emulator in `src/`: how transactions,
schema changes, sessions and databases interact, and how a write becomes stored
rows, whether it is a mutation or a DML statement. TLC checks the models on small
instances; TLAPS proves the commit protocol, the read-write and read-only
transactions on top of it, the sessions and requests of clients, the life of
databases and the steps of key narrowing for instances of every size.

The emulator is a server that keeps databases in memory. Clients reach it
through sessions; a session begins transactions; a transaction reads and writes
a database, whose schema other clients may change at any time. This fork runs
read-write transactions optimistically: nothing is locked while a transaction
runs, and its reads are validated when it commits.

## The parts of the system and their modules

```
 DatabaseLifecycle   databases, sessions, operations of the server
        |
     Session --- FrontendTransaction     a session's transactions and requests
                        |
              ReadWriteTransaction       ReadOnlyTransaction
                        |                        |
                        +------ LockManager -----+   clock, commit protocol,
                                    |                row versions
                              SerialDatabase         what the protocol promises

 Dml --- KeyNarrowing           inside one transaction or schema change:
  |           |                 from statements, mutations and DDL to rows
  |           |
  +-- WritePath --- SchemaUpdate
          |
    KeyRanges, TableSchema, ChangeRecords, TableMeaning
```

| Module | Models | Source |
|---|---|---|
| `LockManager` | the clock, snapshots, read sets, the commit critical section, pending timestamps, validation, the flush of rows, versions and their expiry, the part of a schema change that holds the critical section | `common/clock.cc`, `backend/locking/`, `backend/storage/in_memory_storage.cc`, `backend/transaction/flush.cc` |
| `SerialDatabase` | the abstract specification: commits happen one at a time, at once, in timestamp order | what `LockManager` promises |
| `ReadWriteTransaction` | a backend transaction's calls: lazy snapshot, check of the schema on every call, aborts and resets, constraint errors, commit; a schema change with its backfill, its publication and its failure | `backend/transaction/read_write_transaction.cc`, `backend/database/database.cc`, `backend/schema/catalog/versioned_catalog.cc`, `backend/actions/manager.cc` |
| `ReadOnlyTransaction` | the five timestamp bounds, waiting, picking a schema, the retention check, reading; sweeps of the catalog | `backend/transaction/read_only_transaction.cc`, `versioned_catalog.cc` |
| `FrontendTransaction`, `Session` | a client's requests: status and invalidation of a transaction, replay of DML by sequence number, batches, partitioned DML, commit and its retry, rollback; beginning, finding, evicting and closing transactions | `frontend/entities/transaction.cc`, `session.cc`, `frontend/handlers/{queries,reads,transactions}.cc` |
| `DatabaseLifecycle` | creating, dropping and re-creating databases while requests publish sessions, transactions and operations; ephemeral copies, their limit and their sweep | `frontend/collections/`, `frontend/entities/database.h`, `frontend/server/request_context.cc`, `frontend/handlers/{databases,sessions}.cc` |
| `TableSchema` | what the write path reads off a schema: index keys, managed indexes of foreign keys, key shapes | `backend/schema/updater/schema_updater.cc`, `backend/actions/foreign_key_actions.cc`, `backend/schema/builders/` |
| `KeyRanges` | keys with ascending and descending columns, prefixes and limits; key ranges, disjoint ranges of a key set, the ranges a transaction has deleted | `backend/datamodel/{key,key_range,key_set}.cc` |
| `KeyNarrowing` | which keys a statement reads: constraints on key columns from a WHERE clause, and the key set they make | `backend/query/key_narrowing.cc` |
| `Dml` | DELETE, UPDATE, INSERT (or IGNORE, or UPDATE) and INSERT ON CONFLICT: the scan, the rows they make and the Writes these become | `backend/query/{query_engine,insert_on_conflict_dml_execution,queryable_table}.cc` |
| `WritePath` | flattening of mutations, validators, effectors, buffering, verifiers, change records, flush | `backend/transaction/{read_write_transaction,transaction_store,resolve,foreign_key_restrictions,flush}.cc`, `backend/actions/` |
| `ChangeRecords` | which changes a stream records, how they are grouped, the value capture types | `backend/actions/change_stream.cc` |
| `SchemaUpdate` | batches of DDL statements on tables with rows: validation, backfills, verifiers, what is published after a failure | `backend/schema/updater/`, `backend/schema/{backfills,verifiers}/` |
| `TableMeaning` | the reference: what mutations and constraints mean, without buffers, queues or index entries | (no source: the specification side) |
| `LockManagerInv`, `LockManagerProofs` | inductive invariant of the protocol and the proofs | |
| `ReadWriteInv`, `ReadWriteProofs` | the same for transactions and schema changes | |
| `ReadOnlyProofs` | the same for read-only transactions and the sweeps of the catalog | |
| `SessionProofs` | the same for a session, its transactions and the requests of clients | |
| `DatabaseLifecycleProofs` | the same for databases, sessions and operations of the server | |
| `KeyNarrowingProofs` | narrowing loses no row that matches | |
| `MC*` | instances for TLC | |

`PROJECT.json` maps every definition to the lines it models.

### How actions correspond to code

*Protocol and transactions.* An action is one region the code runs under one
mutex (`Clock::mu_`, `LockManager::mu_`, `commit_mu_`, `InMemoryStorage::mu_`,
the catalog's mutex, the transaction's `mu_`); what happens between two regions
is free to interleave. A handle's `pc` says which region of which call is next.
A commit flushes its rows one at a time, each its own step. Row values are the
names of their writers, which is all that serializability can tell apart; the
history variables `observed` and `committed` record what reads returned and
what commits read and wrote, and no action looks at them.

*Sessions.* A request is accepted, finds its transaction, waits for the
transaction's mutex and runs its handler under it; the answers of the layer
below are sets of possible results, so every outcome the backend can have is
tried. DML requests carry sequence numbers and may arrive late, again and in
any order.

*Databases of the server.* Each manager has its own mutex, and each region
under one is an action; a request is a process that goes through such regions.

*Writes.* One transaction runs at a time, because the protocol modules show how
concurrent ones are kept apart. A mutation becomes a queue of operations;
`ProcessWriteOp` takes one, applies the validators, buffers it and appends the
effects; `EndWrite` runs the verifiers; `Commit` writes the change records and
flushes. The variable `expected` is what the mutations mean, computed by
`TableMeaning`; it is compared with the machinery's result and never used by it.

*Statements.* A DML statement first reads: `KeyNarrowing` turns the conjuncts of
its WHERE clause into a constraint for each key column and these into a key set,
`Scan` yields the keys of the table in its ranges, and the filter is evaluated
on what the scan yields. The rows then become the mutations of one Write, one
`DmlRow` step each with the queue of its effects in between, and `EndWrite`
follows the last. INSERT ON CONFLICT DO UPDATE is two Writes, and the second
looks for its rows in what the first has buffered. What a statement means is the
same statement evaluated on `expected` without narrowing, buffers or order. An
INSERT ON CONFLICT with no new rows skips its first Write in the code and makes
one of no rows in the model, which does nothing.

A definition whose name ends in `_Bug` is a mutation of the definition after
it, used to see that a property notices; no specification uses it.

## What the runs check

Every run explores all states of its instance; the constants are in the `.cfg`
of the same name. `V` marks runs that show a disagreement (see Findings).

| Run | Instance | Shows |
|---|---|---|
| `commit_protocol` (`MCLockManager`) | 2 transactions, 2 rows, 3 clock values | a commit leaves exactly its writes; the protocol implements the serial database (`ImplementsSerialDatabase`); a transaction sees every commit that completed before it began |
| `schema_change` (`MCSchemaChange`) | 2 transactions, 1 schema change, 1 row | snapshots do not move (`SnapshotIsStable`), commits are `Serializable`, the past is frozen for the retention period; every requested snapshot is granted and the critical section is always left |
| `transaction_schemas` | 1 transaction, 2 schema changes, 1 row, a system clock that is set back at will | what a transaction reads, commits or was analyzed against belongs to one schema, the one in force; an error reported as final holds in the latest committed state; transactions use the protocol as `LockManager` allows |
| `read_only_transactions` | 1 reader with any of the five bounds, 1 commit, 4 clock values, expiring versions, sweeps | all reads are of one moment; the timestamp meets its bound and covers what was complete when it was asked for |
| `read_schema` | 1 reader at an exact timestamp, 2 schema changes, sweeps at any time | the schema it takes is the one in effect, or it knows that one is gone; sweeps remove only what the retention period does not cover |
| `session` | ordinary and multiplexed sessions, 2 concurrent requests, 2 transactions, 3 accepted requests, DML and batches with 2 sequence numbers | acknowledged DML is in what commits; statements run once and in order; replays agree; a closed transaction does not commit |
| `database_lifecycle` | 2 databases under one URI, 2 requests, 2 session ids, batches of 2, 1 ephemeral copy | a drop takes everything of its own database and nothing of the next one; places for copies are counted exactly; a failed batch returns its sessions; a transaction begun on a multiplexed session is found while its database exists |
| `ephemeral_sessions` | the same with 1 session, 1 transaction id, client-chosen operation ids and a system clock that is set back | copies of expired and orphaned sessions are destroyed in the end |
| `write_path` | the five schemas of `MCWritePath` | rows become what mutations and DML statements mean, however narrowly the statements read; indexes and constraints agree with them; refusals have a cause; every write leaves a version; change records replay; a change stops at the first statement that fails; effects end |
| `closed_transaction` V | session with schema changes | finding 1 |
| `key_reference` V | a foreign key on a table's own primary key | finding 2 |

### Bounds, and why they are enough

* *Two transactions and a schema change.* Every conflict of the protocol is
  between a reader and one later writer, or between two holders of the critical
  section; the proofs cover any number.
* *Three or four clock values.* A snapshot, a commit after it and a moment in
  between or after are three; four let a version expire (retention period 1)
  between the check of the retention period and the read.
* *Two requests.* The races of sessions and databases are between a request
  that has looked something up and one that changes it.
* *Transaction ids up to 2.* A database that draws an id and its successor under
  the same URI that draws from the same or a later time.
* *Three accepted requests, two sequence numbers.* A statement, its replay or
  its successor, and the commit.
* *Schemas.* Each schema of `MCWritePath` has two or three tables, up to three
  mutations in a transaction, and transactions that follow each other without
  bound: a row can be inserted, changed, deleted and inserted again inside one
  transaction and across transactions. The schemas together have every kind of
  object the modules treat. The one with DML statements has a key of two columns,
  the second descending, and statements with every kind of filter the narrowing
  knows; they run against rows the transaction itself has buffered.
* *Two point keys.* The code gives up listing points at 1000
  (`kMaxPointKeys`); the instances do at 2, so both sides of the limit occur.

Symmetry is used over transactions, rows, requests and databases in safety runs
only. `session` and `closed_transaction` do not check deadlock: a session whose
requests are used up stops.

### Fairness

Liveness is checked under weak fairness of steps of threads that are running
and whose step waits for nothing but its own turn: the clock advances, a
waiting snapshot notices the time and the end of earlier commits, a commit in
the critical section goes on (`LockManager`); the steps of an accepted request,
the sweep timer and the destruction of an unreferenced copy
(`DatabaseLifecycle`); the loop over queued operations (`WritePath`). No strong
fairness is assumed on a mutex: that a given transaction enters the critical
section is not promised and not checked.

## What is proved

`LockManager`, `ReadWriteTransaction` and `ReadOnlyTransaction` are proved for
every number of transactions, readers, schema changes, rows and clock values,
from the named assumptions of the three modules: actors and markers are distinct,
retention periods are positive, and the initial schema is not one of the changes.

*Protocol.* `Inv` (in `LockManagerInv`) strengthens the properties until they
are inductive. Its core says that timestamps in use never run ahead of the
clock (`ClockInv`), that the pending timestamps are exactly those of flushing
commits and lie above the last commit (`PendingInv`), that a version above the
last commit belongs to the flushing commit (`VersionsInv`, `FlushInv`), that no
pending commit lies at or below a settled snapshot (`SnapshotInv`), that what
was read is what the snapshot holds (`ReadInv`), and that from validation on no
row of the read set has a foreign version after the snapshot (`ValidatedInv`).
Serializability needs all of them: a commit at `c` read its snapshot `s`,
`ValidatedInv` carries its reads from `s` to `c - 1`, and `CommittedInv` says
that nothing is written there any more. `LockManagerInv` has one lemma
for each action that is not framing; `LockManagerProofs` puts them together
(`Invariance`) and derives `SnapshotsAreStable`, `CommitsAreSerializable`, `CommitsAreTheirWrites`,
`PastIsFrozen`, `RealTimeOrder` and `Refinement`, where the abstract state is the
newest committed version of each row, marking a commit complete is the abstract
transaction and all other steps stutter.

*Key narrowing.* `KeyNarrowingProofs` has two theorems about pure operators, for
any values, keys of any length and any constraint gathered before.
`AddFilterLosesNoMatch`: if a value is within the constraint of its column and
the conjunct holds for it, it is within the constraint `AddFilter` returns; its
lemmas treat lower bounds, upper bounds, lists of points and comparisons, with
the column on either side. `MakeRangeLosesNoKey`: a key with the given prefix,
whose next column is within the bounds, is in the range `MakeRange` makes of
them, where a descending column swaps the bounds and an inclusive limit or an
exclusive start becomes a prefix limit; it rests on `CompareWithEndpoint`, which
says how a longer key compares with an endpoint. That `BuildKeySet` puts ranges
together for all prefixes, and that `MakeDisjointKeyRanges` keeps their union,
are folds over sequences and stay with TLC. Narrowing that reads too much is no
error, since the filter is evaluated again; no property asks for tight ranges.

*Transactions.* `TransactionsUseTheProtocol` shows that every step of
`ReadWriteTransaction` is a step of `LockManager` or leaves it alone, so the
protocol's theorems carry over (`TransactionsAreSerializable`). `RWInv` adds
which schema a transaction holds (`CallInv`), that the catalog agrees with the
timestamps of completed changes (`CatalogInv`), and that a validated commit
holds the newest schema (`ValidatedSchemaInv`); from it follow
`CommitsUseTheirSchema`, `ReadsUseTheirSchema`, `CallsRunOnAnalyzedSchema` and
`FinalErrorsHold`. `RWTypes` is type correctness, which no run checks again.

*Read-only transactions.* `ReadersAreInvisible` shows that a reader or a sweep of
the catalog does nothing to transactions and schema changes but call the clock, so
everything proved of them holds beside readers. The rest turns on one notion: a
time is `Frozen` when the clock has passed it and no commit is pending at or below
it. `FrozenStays` says that rows, schemas and the absence of commits at a frozen
time never change again. `ROInv` then says of a reader how far the timestamp it is
computing is from its bound at each of the calls of the clock (`PickInv`); that
after its waits and the retention check the timestamp is frozen (`WaitInv`); that
what it has seen is what there was (`SeenInv`); and that its schema is the one in
effect once the timestamp was safe (`SchemaInv`). Of the catalog it says that
every schema missing without a schema change lies in the swept range and that
nothing but the first schema is left below the end of that range (`SweepInv`).
`BoundTheorem`, `SchemaTheorem`, `SweptTheorem` and the action property
`CoveredTheorem` hold for every value of the constants. `ReadsTheorem` has the
condition `Steady`: the system clock is not set back, or no bound may ask for a
time in the future. The timestamp of a reader that waited for its time is frozen
only because the retention check takes a later one from the clock, and a clock set
back in between would give an earlier one.

*Sessions.* `SessionProofs` treats a session with any number of requests,
transactions, statements and sequence numbers and any limit on the transactions
of a session, so eviction at the limit is covered beyond the two transactions of
the `session` run. It assumes of the constants that statements and batches are
distinct, that limits are naturals and that the marker `None` is no value.
`SessionInv` says of every transaction (`TxnInv`) that its statements ran in the
order of their sequence numbers (`RanInv`), that what is recorded for a sequence
number is how the request was answered (`EntryInv`), and that what was acknowledged is
buffered as long as the transaction can go on and written once it has committed
(`BackendInv`); of the session (`MapInv`), that the transactions made so far
have the first ids, that the active one is the oldest the session still knows,
and that what it no longer knows is closed; and of the answer just given
(`ReplyInv`), that it repeats the first one and is no ABORTED for what has
committed. There is one lemma for each kind of call, saying what the call
returns and that it preserves `TxnInv`, and one for each action.
`PredecessorsTheorem`, `DmlOrderTheorem` and `NotRetriedTheorem` hold for every
value of the constants. Three have a condition, the one under which the run
checks the property. `AcknowledgedTheorem` and `ClosedTheorem` assume that no
schema changes, because a schema change resets a backend transaction that the
frontend still holds (finding 1). `ReplaysTheorem` assumes that no statement
asks for data boost (see below).

*Databases.* `DatabaseLifecycleProofs` treats any number of databases, URIs,
requests and operations and any limits. `LifecycleInv` says what a drop has
already taken away at each of its steps and that it stays away (`DropInv`), that
the quota counts the registered databases (`QuotaInv`), that new sessions are
unknown and unfinished ones known to one request (`FreshInv`, `MadeInv`), that a
sweep holds only sessions that expired (`SweepInv`), that a place is held for
each copy there is or is being made (`CopyInv`), that a database that is not
dropped is the one registered under its URI (`OwnerInv`), and that transactions
in the map have ids below those its database will draw (`IdInv`). The proofs of
`QuotaInv` and `CopyInv` count finite sets. `NothingOutlivesDropTheorem`,
`QuotaTheorem`, `CopiesTheorem`, `SessionsReturnedTheorem` and the action
property `SessionsKeptTheorem` follow. `BegunTheorem` has the condition
`~SetBack`: the system time at which a database is created is past every id
drawn before, which holds unless the clock is set back or a database begins more
than one transaction a microsecond.

Only model-checked: all liveness properties, which are out of the prover's
reach, and the write path and the statements on it, whose reference semantics is
recursive. Changes of the retention period by a
schema change are covered by the proofs; the TLC instances keep one period.

## Findings

1. `closed_transaction`: `Transaction::Close` ignores the status of its
   rollback. After a schema change the backend answers that rollback with
   ABORTED and resets the transaction, and a Commit that had found it before
   commits it, against `frontend/entities/session.h:55-56`.
2. `key_reference`: a foreign key whose columns are the table's own primary key
   is not verified when the row is inserted and then updated in one Write,
   against `backend/actions/foreign_key.h:30-33`.

Met while modelling and not run as violations:

* `ReadWriteTransaction::Reset` keeps `deleted_key_ranges_by_table_`
  (`read_write_transaction.cc:447`); no client sees it, because the frontend
  gives a retry a new transaction.
* A wait for a read time ends in the microsecond of that time, when a schema
  change may still reserve it (`manager.cc:63`, `manager.h:88-89`);
  `SchemaIsInEffect` exempts it.
* A read that loses its versions after the retention check misses rows instead
  of failing (`read_only_transaction.cc:66`, `docs/memory-release.md:65`);
  `ReadsAreOfOneMoment` exempts it.
* The retry of a batch that was refused or aborted is answered as a mismatch
  (`queries.cc:628`, `transaction.h:88-90`); `ReplaysAgree` is about single
  statements.
* `AddToCurrentTransactions` keeps an entry that is already there and reports
  nothing (`multiplexed_session_transaction_manager.cc:69`). A transaction of a
  re-created database has a key of its own only because the ids of a database
  start at the system time of its creation (`database.cc:80`; the comment above
  it says at 1). `BegunIsFound` is checked and proved for a system clock that is
  not set back (`SetBack = FALSE`); with one that is, it can fail.
* A statement that is refused for data boost is refused before its sequence
  number is looked up, and `GuardedCall` records the refusal for the DML request
  before it (`queries.cc:243`, `transaction.cc:433`); `ReplaysAgree` is checked
  and proved without such statements (`Boosted = {}`).
* The id of a long-running operation is checked before a schema change and used
  after it (`databases.cc:185`).
* The least valid transaction id is raised before the id is looked up
  (`session.cc:258`).
* In the write path: two ON UPDATE columns of one table set each other off for
  ever; a foreign key whose columns permute the primary key in a cycle of three
  or more is followed with the inverse permutation; a row inserted in the
  transaction and reached by two cascades is recorded as a DELETE; an Update
  after a Delete and a Replace of its row is refused as an update of a deleted
  row. The schemas of `MCWritePath` avoid these.
* INSERT OR UPDATE fills in defaults it was not given from the last row, where a
  comment says the first (`query_engine.cc:387`); the statements of the instances
  list the column.
* When the second half of INSERT ON CONFLICT DO UPDATE cannot be evaluated, the
  Write of its first half stays buffered (`query_engine.cc:1328`); expressions of
  the model do not fail.
* The mark that a key holds a commit timestamp is not cleared between the rows
  of an INSERT ON CONFLICT (`insert_on_conflict_dml_execution.cc:233`); the
  instances have no such columns.

## Not modelled

* *Queries and the rest of DML.* SELECT and its evaluation, INSERT from a query,
  subqueries, updates of key columns, THEN RETURN, filters the evaluator pushes
  into a scan, tables scanned twice in a statement (which are not narrowed), and
  the translation of PostgreSQL's ON CONFLICT to INSERT OR UPDATE.
* *Expressions, function catalogs, PostgreSQL dialect.* Evaluating
  expressions is sequential and done by GoogleSQL or translated PostgreSQL
  code; it is most of the implementation by lines. The models take the values
  of expressions as functions.
* *DDL text.* Parser, printer, builders and most validators translate between
  text and schema objects; the models start from the objects. Of the statements,
  `SchemaUpdate` has those listed there; type changes and the objects without
  rows (views, sequences, models, placements, named schemas, roles) are left out.
* *Write path.* Commit-timestamp columns and their tracker, evaluated key
  columns, unenforced foreign keys, INTERLEAVE IN, search indexes, size and type
  limits, partition tokens and the JSON of change records.
* *Transactions.* Single-use transactions, the retry state and priority handed
  to a new transaction, read-only transactions at the frontend, rows of THEN
  RETURN, clean-up of dropped tables and columns.
* *Change stream partitions.* The churner and its threads, and streaming to
  clients.
* *Bookkeeping.* Instances, listing, sequences (a counter under a mutex), the
  create cache (its copies are the rows a database starts with), the memory
  reclaimer (a timer that calls the modelled sweep), converters, gateway,
  binaries.

`ReadsAreOfOneMoment` is checked without a system clock that is set back while a
reader waits, which is one of the two cases `ReadsTheorem` covers. In that run the commit beside the reader is a schema change's,
which has the critical section and the pending timestamp a transaction's has.

The mapped definitions cover a small part of the implementation's lines, the
part in which concurrency, buffering and validation meet; the bulk (dialect,
parsers, catalogs, error texts) has no state to check.
