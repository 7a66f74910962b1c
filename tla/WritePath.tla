------------------------------- MODULE WritePath -------------------------------
(***************************************************************************)
(* How a read-write transaction turns mutations into stored rows: the     *)
(* mutation is flattened into operations, each operation passes the       *)
(* validators, queues the effects of the schema's actions (cascades,      *)
(* index entries, evaluated columns) and is buffered; at the end of the   *)
(* Write call the verifiers look at the operations of the call; Commit    *)
(* logs the change records and flushes the buffer.  One transaction runs  *)
(* at a time: LockManager and ReadWriteTransaction model how concurrent   *)
(* ones are kept apart.                                                    *)
(*                                                                         *)
(* A mutation is [op, table, row] (the row's domain is the columns it     *)
(* supplies), or [op |-> "delete", table, key_set].  expected is what the *)
(* mutations mean for the tables, computed without the machinery; it is   *)
(* compared, never used.                                                   *)
(***************************************************************************)
EXTENDS ChangeRecords, TableMeaning

CONSTANT
    Schemas     \* the schemas, each with the mutations tried on it and
                \* max_mutations, the bound on those of one transaction

VARIABLES
    schema,
    storage,        \* data table -> key -> row: Storage at the latest version
    buffer,         \* TransactionStore::buffered_ops_
    written,        \* TransactionStore::written_keys_, as <<table, key>>
    statement,      \* <<table, key>> -> its last op: current_statement_ops_
    queue,          \* write_ops_queue_
    deleted,        \* table -> ranges: deleted_key_ranges_by_table_
    fk_inserted,    \* <<table, key>>: ForeignKeyRestrictions, of this Write
    fk_deleted,     \* <<table, range>>
    phase,          \* "idle" between calls, "write", "failed", "committed";
                    \* "dml" and "conflict" are Dml's
    dml,            \* what is left of the DML statement that runs, see Dml
    mutations,      \* the mutations and statements of this transaction so far
    records,        \* stream -> the records the commit wrote
    versions,       \* the <<table, key>> the commit gave a version
    expected

vars == <<schema, storage, buffer, written, statement, queue, deleted,
          fk_inserted, fk_deleted, phase, dml, mutations, records, versions, expected>>

Empty == [k \in {} |-> Null]

NoDml == [rest |-> <<>>, update |-> <<>>]

Cols(t) == ToSet(schema.cols[t])

Order(t) == schema.order[t]

(***************************************************************************)
(* The transaction store                                                   *)
(***************************************************************************)
\* The rows a table holds for this transaction: buffered inserts and
\* updates over the storage, less the deletes.
Keys(t) ==
    LET buf == buffer[t]
    IN {k \in DOMAIN storage[t] : k \in DOMAIN buf => buf[k].type # "delete"}
         \cup {k \in DOMAIN buf : buf[k].type = "insert"}

Lookup(t, key) ==
    IF key \notin DOMAIN buffer[t] THEN storage[t][key]
    ELSE IF buffer[t][key].type = "insert"
    THEN buffer[t][key].row @@ [c \in Cols(t) |-> Null]
    ELSE buffer[t][key].row @@ storage[t][key]

Read(t) == [k \in Keys(t) |-> Lookup(t, k)]

Exists(t, key) == key \in Keys(t)

ReadPrefix(t, prefix) == {k \in Keys(t) : IsPrefix(prefix, k)}

\* Mutant: an insert over a buffered delete forgets the columns it nulled.
BufferInsert_Bug(op) ==
    (op.key :> [type |-> "insert", row |-> op.row]) @@ buffer[op.table]

BufferInsert(op) ==
    LET buf == buffer[op.table]
        before == IF op.key \in DOMAIN buf THEN buf[op.key].row ELSE NoRow
    IN (op.key :> [type |-> "insert", row |-> op.row @@ before]) @@ buf

BufferUpdate(op) ==
    LET buf == buffer[op.table]
    IN IF op.key \in DOMAIN buf
       THEN [buf EXCEPT ![op.key].row = op.row @@ @]
       ELSE (op.key :> [type |-> "update", row |-> op.row]) @@ buf

BufferDelete(op) ==
    LET buf == buffer[op.table]
    IN IF op.key \in DOMAIN buf /\ op.key \notin DOMAIN storage[op.table]
       THEN [k \in DOMAIN buf \ {op.key} |-> buf[k]]
       ELSE (op.key :> [type |-> "delete",
                        row |-> [c \in Cols(op.table) |-> Null]]) @@ buf

BufferWriteOp(op) ==
    /\ buffer' = [buffer EXCEPT ![op.table] =
                    CASE op.type = "insert" -> BufferInsert(op)
                      [] op.type = "update" -> BufferUpdate(op)
                      [] op.type = "delete" -> BufferDelete(op)]
    /\ written' = written \cup {<<op.table, op.key>>}
    /\ statement' = (<<op.table, op.key>> :> op) @@ statement

InsertOp(t, key, row) ==
    [type |-> "insert", table |-> t, key |-> key, row |-> row]

UpdateOp(t, key, row) ==
    [type |-> "update", table |-> t, key |-> key, row |-> row]

DeleteOp(t, key) ==
    [type |-> "delete", table |-> t, key |-> key, row |-> NoRow]

DeleteEach(t, keys) == [i \in DOMAIN keys |-> DeleteOp(t, keys[i])]

DeleteOps(t, keys) == DeleteEach(t, InKeyOrder(Order(t), keys))

(***************************************************************************)
(* Validators: what refuses an operation at once.  Index data tables have *)
(* none.                                                                   *)
(***************************************************************************)
NullInNotNull(op) ==
    \E c \in DOMAIN op.row : /\ op.row[c] = Null
                             /\ c \notin schema.nullable[op.table]
                             /\ c \notin Generated(schema, op.table)

ColumnValueValidator(op) == op.type # "delete" /\ NullInNotNull(op)

RowExistenceValidator(op) ==
    \/ op.type = "insert" /\ Exists(op.table, op.key)
    \/ op.type = "update" /\ ~Exists(op.table, op.key)

InterleaveParentValidator(op) ==
    /\ op.type = "delete"
    /\ \E c \in ToSet(Children(schema, op.table)) :
          schema.on_delete[c] = "no_action" /\ ReadPrefix(c, op.key) # {}

InterleaveChildValidator(op) ==
    LET parent == schema.parent[op.table]
    IN /\ op.type = "insert"
       /\ parent # "none"
       /\ ~Exists(parent, PrefixOf(op.key, Len(schema.key[parent])))

ApplyValidators(op) ==
    /\ op.table \in ToSet(schema.tables)
    /\ \/ ColumnValueValidator(op)
       \/ RowExistenceValidator(op)
       \/ InterleaveParentValidator(op)
       \/ InterleaveChildValidator(op)

(***************************************************************************)
(* Effectors: the operations that an operation queues.                    *)
(***************************************************************************)
InterleaveParentEffector(op, child) ==
    IF op.type = "delete" /\ schema.on_delete[child] = "cascade"
    THEN DeleteOps(child, ReadPrefix(child, op.key))
    ELSE <<>>

IndexInsert(x, row) ==
    LET key == ComputeIndexKey(schema, x, row)
    IN IF ShouldFilterIndexKey(x, key) THEN <<>>
       ELSE <<InsertOp(x.name, key, ComputeIndexValues(schema, x, row))>>

IndexDelete(x, row) ==
    LET key == ComputeIndexKey(schema, x, row)
    IN IF ShouldFilterIndexKey(x, key) THEN <<>> ELSE <<DeleteOp(x.name, key)>>

\* Mutant: an update does not remove the old entry.
IndexEffector_Bug(op, x) ==
    CASE op.type = "insert" -> IndexInsert(x, op.row)
      [] op.type = "update" -> IndexInsert(x, op.row @@ Lookup(op.table, op.key))
      [] op.type = "delete" ->
            IF Exists(op.table, op.key)
            THEN IndexDelete(x, Lookup(op.table, op.key)) ELSE <<>>

IndexEffector(op, x) ==
    CASE op.type = "insert" -> IndexInsert(x, op.row)
      [] op.type = "update" ->
            LET base == Lookup(op.table, op.key)
            IN IndexDelete(x, base) \o IndexInsert(x, op.row @@ base)
      [] op.type = "delete" ->
            IF Exists(op.table, op.key)
            THEN IndexDelete(x, Lookup(op.table, op.key)) ELSE <<>>

\* The rows of the referencing table that refer to a referenced key, by the
\* primary key where the columns lead it and through the index elsewhere.
ProcessDeleteByKey(fk, key) ==
    LET pk == schema.key[fk.from]
        shape == GetKeyPrefixShape(fk.cols, pk)
        index_pk == schema.key[fk.from_data]
    IN DeleteOps(fk.from,
         CASE shape \in {"in_order", "in_order_prefix"} ->
                ReadPrefix(fk.from, key)
           [] shape = "out_of_order" ->
                ReadPrefix(fk.from, ComputePk(key, fk.cols, pk))
           [] shape = "none" ->
                {ComputePk(k, index_pk, pk) : k \in
                    ReadPrefix(fk.from_data, ComputePk(key, fk.cols, index_pk))})

ForeignKeyActionEffector(op, fk) ==
    LET pk == schema.key[fk.to]
        shape == GetKeyPrefixShape(fk.refcols, pk)
    IN IF op.type # "delete" \/ ~fk.cascade THEN <<>>
       ELSE CASE shape \in {"in_order", "in_order_prefix"} ->
                   ProcessDeleteByKey(fk, PrefixOf(op.key, Len(fk.refcols)))
              [] shape = "out_of_order" ->
                   ProcessDeleteByKey(fk, ComputePk(op.key, fk.refcols, pk))
              [] shape = "none" ->
                   IF ~Exists(fk.to, op.key) THEN <<>>
                   ELSE ProcessDeleteByKey(fk,
                           Tuple(fk.refcols, Lookup(fk.to, op.key)))

\* The evaluated columns an operation leaves to compute, each from the
\* values so far, given those the operation supplies or reads.
Evaluate(t, values, is_update, apply_on_update) ==
    LET Step(acc, e) ==
          LET value == e.f[Tuple(e.deps, acc.values)]
          IN IF \/ e.kind # "generated" /\ e.col \in DOMAIN acc.values
                \/ /\ e.kind # "generated" /\ is_update
                   /\ ~(apply_on_update /\ e.kind = "on_update")
             THEN acc
             ELSE [values |-> (e.col :> value) @@ acc.values,
                   computed |-> (e.col :> value) @@ acc.computed]
    IN FoldLeft(Step, [values |-> values, computed |-> NoRow],
                schema.evaluated[t]).computed

NonKey(t, row) == DOMAIN row \ ToSet(schema.key[t])

\* Mutant: the update that stores a generated column is evaluated again.
IsGeneratedEffect_Bug(op) == FALSE

\* An update of a generated column is this effector's own.
IsGeneratedEffect(op) ==
    NonKey(op.table, op.row) \cap Generated(schema, op.table) # {}

EvaluatedValues(op) ==
    LET t == op.table
        absent == Cols(t) \ (DOMAIN op.row \cup HasDefault(schema, t))
        dependent == UNION {ToSet(e.deps) : e \in ToSet(schema.evaluated[t])}
        Stored(c) == Lookup(t, op.key)[c]
    IN CASE op.type = "insert" ->
              Evaluate(t, op.row @@ [c \in absent |-> Null], FALSE, FALSE)
         [] op.type = "update" /\ ~IsGeneratedEffect(op) ->
              Evaluate(t, op.row @@ [c \in dependent |-> Stored(c)], TRUE,
                       NonKey(t, op.row) # {})
         [] OTHER -> NoRow

\* An evaluated column that may not be NULL has no value.
EvaluationFails(op) ==
    /\ op.table \in ToSet(schema.tables)
    /\ \E c \in DOMAIN EvaluatedValues(op) :
          /\ c \notin schema.nullable[op.table]
          /\ EvaluatedValues(op)[c] = Null

EvaluatedColumnEffector(op) ==
    IF EvaluatedValues(op) = NoRow THEN <<>>
    ELSE <<UpdateOp(op.table, op.key, EvaluatedValues(op))>>

ApplyEffectors(op) ==
    LET ForChild(c) == InterleaveParentEffector(op, c)
        ForIndex(x) == IndexEffector(op, x)
        ForKey(fk) == ForeignKeyActionEffector(op, fk)
        Each(F(_), s) == FlattenSeq([i \in DOMAIN s |-> F(s[i])])
    IN IF op.table \notin ToSet(schema.tables) THEN <<>>
       ELSE Each(ForChild, Children(schema, op.table))
              \o Each(ForIndex, IndexesOf(schema, op.table))
              \o Each(ForKey, ReferencingForeignKeys(schema, op.table))
              \o EvaluatedColumnEffector(op)

(***************************************************************************)
(* Write: one mutation of the call                                        *)
(***************************************************************************)
Reset ==
    /\ buffer' = [t \in DataTables(schema) |-> Empty]
    /\ written' = {}
    /\ statement' = Empty
    /\ queue' = <<>>
    /\ deleted' = [t \in ToSet(schema.tables) |-> <<>>]
    /\ fk_inserted' = {}
    /\ fk_deleted' = {}
    /\ dml' = NoDml
    /\ mutations' = 0

Fail ==
    /\ phase' = "failed"
    /\ Reset
    /\ UNCHANGED <<schema, storage, records, versions>>

CascadingKeys(t) ==
    {fk \in ToSet(schema.fks) : fk.to = t /\ fk.cascade}

ReferencedColumns(t) == UNION {ToSet(fk.refcols) : fk \in CascadingKeys(t)}

FlattenNonDeleteOpRow(m, key) ==
    CASE m.op = "insert" -> <<InsertOp(m.table, key, m.row)>>
      [] m.op = "update" -> <<UpdateOp(m.table, key, m.row)>>
      [] m.op = "insert_or_update" ->
            IF Exists(m.table, key) THEN <<UpdateOp(m.table, key, m.row)>>
            ELSE <<InsertOp(m.table, key, m.row)>>
      [] m.op = "replace" ->
            <<DeleteOp(m.table, key), InsertOp(m.table, key, m.row)>>

\* ForeignKeyRestrictions: within one Write a referenced row is not both
\* deleted and written.  The sets that the operations add, in their order.
ValidateReferencedMods(ops) ==
    LET Step(acc, op) ==
          LET at == <<op.table, op.key>>
              key == Key(op.key)
          IN IF CascadingKeys(op.table) = {} THEN acc
             ELSE CASE op.type = "delete" ->
                         [acc EXCEPT !.deleted = @ \cup {<<op.table, ClosedClosed(key, key)>>},
                                     !.ok = @ /\ at \notin acc.inserted]
                    [] op.type # "delete"
                         /\ DOMAIN op.row \cap ReferencedColumns(op.table) = {} -> acc
                    [] OTHER ->
                         [acc EXCEPT !.inserted = @ \cup {at},
                                     !.ok = @ /\ \A d \in acc.deleted : d[1] = op.table =>
                                                ~RangeContains(Order(op.table), d[2], key)]
    IN FoldLeft(Step, [ok |-> TRUE, inserted |-> fk_inserted,
                       deleted |-> fk_deleted], ops)

\* Mutant: an insert leaves its key among the deleted ones.
DeletedRanges_Bug(m, key) == deleted[m.table]

\* The ranges the transaction deleted; an insert takes its key out of them.
DeletedRanges(m, key) ==
    LET o == Order(m.table)
        old == deleted[m.table]
        Kept(r) == ~RangeContains(o, r, Key(key))
        Split(r) == IF Kept(r) THEN <<>> ELSE SplitKeyRange(o, r, Key(key))
    IN IF m.op \in {"insert", "insert_or_update"}
       THEN SelectSeq(old, Kept) \o FlattenSeq([i \in DOMAIN old |-> Split(old[i])])
       ELSE old

CanMutate ==
    /\ phase \in {"idle", "write"}
    /\ queue = <<>>
    /\ mutations < schema.max_mutations

Queue(ops, restrictions, then) ==
    /\ phase' = then.phase
    /\ dml' = then.dml
    /\ mutations' = then.mutations
    /\ queue' = ops
    /\ fk_inserted' = restrictions.inserted
    /\ fk_deleted' = restrictions.deleted
    /\ UNCHANGED <<schema, storage, buffer, written, statement, records, versions>>

\* One delete, or one row of another operation, of a Write; meaning is what
\* the tables then become, unless it breaks the restriction on referenced
\* rows, and then the state of the call once it is queued.
ApplyDelete(m, meaning, then) ==
    LET t == m.table
        ranges == MakeDisjointKeyRanges(Order(t), m.key_set)
        restricted == CascadingKeys(t) # {}
        refused == restricted /\ \E at \in fk_inserted :
                     at[1] = t /\ ContainsAny(Order(t), ranges, Key(at[2]))
    IN /\ expected' = IF refused THEN Refused ELSE meaning
       /\ IF refused THEN Fail
          ELSE /\ Queue(DeleteEach(t, Scan(Order(t), ranges, Keys(t))),
                        [inserted |-> fk_inserted,
                         deleted |-> fk_deleted \cup
                           IF restricted THEN {t} \X ToSet(ranges) ELSE {}], then)
               /\ deleted' = [deleted EXCEPT ![t] = @ \o ranges]

ApplyRow(m, meaning, then) ==
    LET t == m.table
        key == Tuple(schema.key[t], m.row)
        ops == FlattenNonDeleteOpRow(m, key)
        restrictions == ValidateReferencedMods(ops)
        gone == DeletedRanges(m, key)
    IN /\ expected' = IF restrictions.ok THEN meaning ELSE Refused
       /\ IF \/ ~ValidateNonDeleteMutationOp(schema, m)
             \/ m.op = "update" /\ ContainsAny(Order(t), gone, Key(key))
             \/ ~restrictions.ok
          THEN Fail
          ELSE /\ Queue(ops, restrictions, then)
               /\ deleted' = [deleted EXCEPT ![t] = gone]

InWrite == [phase |-> "write", dml |-> NoDml, mutations |-> mutations + 1]

WriteDelete(m) ==
    /\ CanMutate
    /\ m.op = "delete"
    /\ ApplyDelete(m, Meaning(schema, expected, m), InWrite)

WriteRow(m) ==
    /\ CanMutate
    /\ m.op # "delete"
    /\ ApplyRow(m, Meaning(schema, expected, m), InWrite)

ProcessWriteOp ==
    LET op == Head(queue)
    IN /\ queue # <<>>
       /\ IF ApplyValidators(op) \/ EvaluationFails(op) THEN Fail
          ELSE /\ BufferWriteOp(op)
               /\ queue' = Tail(queue) \o ApplyEffectors(op)
               /\ UNCHANGED <<schema, storage, deleted, fk_inserted, fk_deleted,
                              phase, dml, mutations, records, versions>>
       /\ UNCHANGED expected

(***************************************************************************)
(* Verifiers, on the last operation of the call on each row               *)
(***************************************************************************)
\* Mutant: one entry too many is let through.
UniqueIndexVerifier_Bug(op, x) ==
    /\ x.unique /\ op.type = "insert" /\ op.table = x.name
    /\ Cardinality(ReadPrefix(x.name, PrefixOf(op.key, Len(x.keys)))) > 2

UniqueIndexVerifier(op, x) ==
    /\ x.unique /\ op.type = "insert" /\ op.table = x.name
    /\ Cardinality(ReadPrefix(x.name, PrefixOf(op.key, Len(x.keys)))) # 1

ForeignKeyReferencingVerifier(op, fk) ==
    /\ op.type = "insert" /\ op.table = fk.from_data
    /\ ReadPrefix(fk.to_data, PrefixOf(op.key, Len(fk.cols))) = {}

ForeignKeyReferencedVerifier(op, fk) ==
    LET key == PrefixOf(op.key, Len(fk.cols))
    IN /\ op.type = "delete" /\ op.table = fk.to_data
       /\ ReadPrefix(fk.to_data, key) = {}
       /\ ReadPrefix(fk.from_data, key) # {}

CheckConstraintVerifier(op, check) ==
    /\ op.type # "delete" /\ op.table = check.table
    /\ Tuple(check.cols, op.row @@ Lookup(op.table, op.key)) \in check.false

ApplyStatementVerifiers ==
    \E at \in DOMAIN statement :
        LET op == statement[at]
        IN \/ \E x \in ToSet(schema.indexes) : UniqueIndexVerifier(op, x)
           \/ \E fk \in ToSet(schema.fks) :
                 \/ ForeignKeyReferencingVerifier(op, fk)
                 \/ ForeignKeyReferencedVerifier(op, fk)
           \/ \E check \in ToSet(schema.checks) :
                 CheckConstraintVerifier(op, check)

EndWrite ==
    /\ phase \in {"write", "dml"} /\ queue = <<>> /\ dml.rest = <<>>
    /\ IF ApplyStatementVerifiers THEN Fail
       ELSE /\ phase' = IF dml.update = <<>> THEN "idle" ELSE "conflict"
            /\ statement' = Empty
            /\ fk_inserted' = {} /\ fk_deleted' = {}
            /\ UNCHANGED <<schema, storage, buffer, written, queue, deleted, dml,
                           mutations, records, versions>>
    /\ UNCHANGED expected

(***************************************************************************)
(* Commit and the start of the next transaction                           *)
(***************************************************************************)
GetBufferedOps ==
    LET OfTable(t) ==
          LET keys == InKeyOrder(Order(t), DOMAIN buffer[t])
          IN [i \in DOMAIN keys |->
                [type |-> buffer[t][keys[i]].type, table |-> t, key |-> keys[i],
                 row |-> buffer[t][keys[i]].row]]
    IN FlattenSeq([i \in DOMAIN schema.tables |-> OfTable(schema.tables[i])])

FlushTable(t) ==
    LET buf == buffer[t]
        gone == {k \in DOMAIN buf : buf[k].type = "delete"}
    IN [k \in (DOMAIN storage[t] \cup DOMAIN buf) \ gone |->
            (IF k \in DOMAIN buf THEN buf[k].row ELSE NoRow) @@
            (IF k \in DOMAIN storage[t] THEN storage[t][k]
             ELSE [c \in Cols(t) |-> Null])]

\* What the flush gives a version: a delete of a row the storage lacks, none.
FlushedVersions ==
    {at \in UNION {{t} \X DOMAIN buffer[t] : t \in DataTables(schema)} :
        \/ buffer[at[1]][at[2]].type # "delete"
        \/ at[2] \in DOMAIN storage[at[1]]}

\* Mutant: writes that cancelled out are forgotten.
GetCancelledWrites_Bug == {}

GetCancelledWrites == {at \in written : at[2] \notin DOMAIN buffer[at[1]]}

Commit(opted_out) ==
    /\ phase = "idle"
    /\ phase' = "committed"
    /\ records' = [stream \in schema.streams |->
            BuildChangeStreamWriteOps(stream, GetBufferedOps, storage, opted_out)]
    /\ storage' = [t \in DataTables(schema) |-> FlushTable(t)]
    /\ versions' = FlushedVersions \cup GetCancelledWrites
    /\ Reset
    /\ UNCHANGED <<schema, expected>>

Rollback ==
    /\ phase = "idle"
    /\ Reset
    /\ expected' = [t \in ToSet(schema.tables) |-> storage[t]]
    /\ UNCHANGED <<schema, storage, phase, records, versions>>

NoRecords(s) == [stream \in s.streams |-> <<>>]

Begin ==
    /\ phase \in {"failed", "committed"}
    /\ phase' = "idle"
    /\ records' = NoRecords(schema)
    /\ versions' = {}
    /\ expected' = [t \in ToSet(schema.tables) |-> storage[t]]
    /\ UNCHANGED <<schema, storage, buffer, written, statement, queue, deleted,
                   fk_inserted, fk_deleted, dml, mutations>>

Init ==
    /\ schema \in Schemas
    /\ storage = [t \in DataTables(schema) |-> Empty]
    /\ buffer = storage
    /\ written = {} /\ versions = {}
    /\ statement = Empty
    /\ queue = <<>>
    /\ deleted = [t \in ToSet(schema.tables) |-> <<>>]
    /\ fk_inserted = {} /\ fk_deleted = {}
    /\ phase = "idle"
    /\ dml = NoDml
    /\ mutations = 0
    /\ records = NoRecords(schema)
    /\ expected = [t \in ToSet(schema.tables) |-> Empty]

Next ==
    \/ \E m \in schema.mutations : WriteDelete(m) \/ WriteRow(m)
    \/ ProcessWriteOp
    \/ EndWrite
    \/ \E opted_out \in BOOLEAN : Commit(opted_out)
    \/ Rollback
    \/ Begin

Spec == Init /\ [][Next]_vars /\ WF_vars(ProcessWriteOp)

(***************************************************************************)
(* Properties                                                             *)
(***************************************************************************)
\* The tables as this transaction sees them.
View == [t \in ToSet(schema.tables) |-> Read(t)]

\* Flattening, effects, buffering and flushing together do to the public
\* tables what the mutations say: evaluated columns, cascades by interleaving
\* and by foreign keys, and replaces included, in the transaction's own view
\* after each mutation and in the storage after the commit.
WritesMeanWhatTheySay ==
    queue = <<>> /\ dml.rest = <<>> /\ phase # "failed" => View = expected

\* Every index's data table holds exactly the entries of the rows it indexes,
\* whenever no operation is being processed.
IndexesAgree ==
    queue = <<>> => \A x \in ToSet(schema.indexes) :
        LET entries == Read(x.name)
        IN /\ {Tuple(schema.cols[x.name], entries[k]) : k \in DOMAIN entries}
                = IndexImage(schema, View, x)
           /\ \A k \in DOMAIN entries : k = Tuple(schema.key[x.name], entries[k])

\* After a Write that succeeds, and so in the storage after every commit, the
\* rows satisfy the interleaving, the foreign keys, the unique indexes and the
\* check constraints, though the verifiers look only at the last operation on
\* each row the call touched.
ConstraintsHold ==
    phase \in {"idle", "committed"} => Consistent(schema, View)

\* A Write is refused only for cause: the mutations have no meaning there (a
\* row exists, is missing, lacks its parent, keeps children...), break the
\* restriction on referenced rows, or leave a constraint broken.
RefusedOnlyWithCause ==
    phase = "failed" => expected = Refused \/ ~Consistent(schema, expected)

\* A commit gives a version to every row it wrote, those whose insert and
\* delete cancelled out included: the versions are what the read sets of
\* concurrent transactions are validated against.
EveryWriteLeavesAVersion ==
    [][phase' = "committed" /\ phase # "committed" => written \subseteq versions']_vars

IsUniform(record) ==
    \A i \in DOMAIN record.mods :
        DOMAIN record.mods[i].new = IF record.type = "delete" THEN {} ELSE record.cols

OldValuesAreCommitted(stream, record, committed) ==
    \A i \in DOMAIN record.mods : \A c \in DOMAIN record.mods[i].old :
        record.mods[i].old[c] = committed[record.table][record.mods[i].key][c]

\* Replaying a commit's records over the tracked columns as they were gives
\* the tracked columns as they are; the mods of a record have the same columns
\* and their old values are the committed ones; and what a stream excludes is
\* not recorded.
StreamsReplay ==
    [][phase' = "committed" /\ phase # "committed" =>
         \A stream \in schema.streams :
            LET log == records'[stream]
            IN /\ \A i \in DOMAIN log :
                     /\ IsUniform(log[i])
                     /\ OldValuesAreCommitted(stream, log[i], storage)
                     /\ log[i].type \notin stream.exclude
               /\ stream.exclude = {} /\ log # <<>> =>
                     Replay(Tracked(stream, storage), log)
                        = Tracked(stream, storage')
               /\ stream.exclude = {} /\ ~stream.allow_exclusion /\ log = <<>> =>
                     Tracked(stream, storage) = Tracked(stream, storage')]_vars

\* The operations a mutation queues, and those they queue in turn, run out:
\* effects do not set one another off for ever.
WritesEnd == queue # <<>> ~> queue = <<>>
================================================================================
