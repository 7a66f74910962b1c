------------------------------ MODULE SchemaUpdate -----------------------------
(***************************************************************************)
(* Schema changes of a database with rows (SchemaUpdater): the statements *)
(* of a change are applied to the schema one after the other, and then    *)
(* the actions each one queued, backfills and verifications, run in       *)
(* order; the first that fails ends the change, and the schema becomes    *)
(* the one of the last statement whose actions all succeeded.  The change *)
(* holds the commit critical section (LockManager), so it is one step     *)
(* here, taken between two transactions; what a failed statement wrote is *)
(* under ids that no schema has, and is left out.                         *)
(*                                                                         *)
(* schema.changes is the changes tried, each at most once; a statement is *)
(* a record with its kind and arguments.  A row without a value for a     *)
(* column reads as NULL there and is stored that way in the model.        *)
(***************************************************************************)
EXTENDS Dml

(***************************************************************************)
(* Statements: what the validators ask, and the schema a statement makes  *)
(***************************************************************************)
IndexNamed(s, name) == SelectSeq(s.indexes, LAMBDA x : x.name = name)

IsManaged(s, name) == \E fk \in ToSet(s.fks) : name \in {fk.to_data, fk.from_data}

Names(s) == DataTables(s) \cup {fk.name : fk \in ToSet(s.fks)}

IsValid(s, st) ==
    CASE st.kind = "create_index" -> st.index.name \notin Names(s)
      [] st.kind = "drop_index" ->
            IndexNamed(s, st.name) # <<>> /\ ~IsManaged(s, st.name)
      [] st.kind = "add_foreign_key" -> st.fk.name \notin Names(s)
      [] st.kind = "drop_foreign_key" -> \E fk \in ToSet(s.fks) : fk.name = st.name
      [] st.kind = "add_check" -> ToSet(st.check.cols) \subseteq ToSet(s.cols[st.check.table])
      [] st.kind = "add_column" ->
            /\ st.col \notin ToSet(s.cols[st.table])
            /\ st.not_null => st.evaluated # <<>>
      [] st.kind = "add_stored_column" ->
            \E x \in ToSet(s.indexes) :
                /\ x.name = st.name
                /\ st.col \in ToSet(s.cols[x.table]) \ ToSet(s.cols[x.name])
      [] st.kind = "set_not_null" ->
            \A x \in ToSet(s.indexes) :
                x.table = st.table /\ st.col \in s.nullable[st.table]
                  /\ st.col \in ToSet(x.keys) => x.null_filtered

DropIndex(s, name) ==
    [s EXCEPT !.indexes = SelectSeq(@, LAMBDA x : x.name # name),
              !.cols = [t \in DOMAIN @ \ {name} |-> @[t]],
              !.key = [t \in DOMAIN @ \ {name} |-> @[t]],
              !.nullable = [t \in DOMAIN @ \ {name} |-> @[t]]]

\* A managed index goes with the last foreign key that manages it.
DropForeignKey(s, name) ==
    LET fk == CHOOSE f \in ToSet(s.fks) : f.name = name
        rest == [s EXCEPT !.fks = SelectSeq(@, LAMBDA f : f.name # name)]
        Drop(acc, index) ==
            IF index \in ToSet(s.tables) \/ IsManaged(acc, index)
               \/ index \notin DataTables(acc)
            THEN acc ELSE DropIndex(acc, index)
    IN FoldLeft(Drop, rest, <<fk.to_data, fk.from_data>>)

AddColumn(s, st) ==
    [s EXCEPT !.cols[st.table] = Append(@, st.col),
              !.nullable[st.table] = IF st.not_null THEN @ ELSE @ \cup {st.col},
              !.evaluated[st.table] = @ \o st.evaluated]

AddStoredColumn(s, st) ==
    LET With(x) == IF x.name = st.name
                   THEN [x EXCEPT !.storing = Append(@, st.col)] ELSE x
        table == IndexNamed(s, st.name)[1].table
    IN [s EXCEPT !.indexes = [i \in DOMAIN @ |-> With(@[i])],
                 !.cols[st.name] = Append(@, st.col),
                 !.nullable[st.name] = @ \cup (s.nullable[table] \cap {st.col})]

ApplyDDLStatement(s, st) ==
    CASE st.kind = "create_index" -> CreateIndex(s, st.index)
      [] st.kind = "drop_index" -> DropIndex(s, st.name)
      [] st.kind = "add_foreign_key" -> CreateForeignKeyConstraint(s, st.fk)
      [] st.kind = "drop_foreign_key" -> DropForeignKey(s, st.name)
      [] st.kind = "add_check" -> [s EXCEPT !.checks = Append(@, st.check)]
      [] st.kind = "add_column" -> AddColumn(s, st)
      [] st.kind = "add_stored_column" -> AddStoredColumn(s, st)
      [] st.kind = "set_not_null" -> [s EXCEPT !.nullable[st.table] = @ \ {st.col}]

\* The schema after each statement, or nothing when a statement is not valid.
ApplyDDLStatements(s, statements) ==
    LET Step(acc, st) ==
          LET last == IF acc.schemas = <<>> THEN s ELSE Last(acc.schemas)
          IN IF ~acc.ok \/ ~IsValid(last, st) THEN [acc EXCEPT !.ok = FALSE]
             ELSE [acc EXCEPT !.schemas = Append(@, ApplyDDLStatement(last, st))]
    IN FoldLeft(Step, [ok |-> TRUE, schemas |-> <<>>], statements)

(***************************************************************************)
(* Backfills and verifiers, on the rows of the storage                    *)
(***************************************************************************)
Done(rows) == [ok |-> TRUE, rows |-> rows]
Failed(rows) == [ok |-> FALSE, rows |-> rows]
Check(ok, rows) == IF ok THEN Done(rows) ELSE Failed(rows)

BackfillIndex(s, x, rows) ==
    LET base == rows[x.table]
        Entry(k) == ComputeIndexKey(s, x, base[k])
        entries == {k \in DOMAIN base : ~ShouldFilterIndexKey(x, Entry(k))}
        Prefix(k) == PrefixOf(Entry(k), Len(x.keys))
        filled == [e \in {Entry(k) : k \in entries} |->
                     ComputeIndexValues(s, x,
                        base[CHOOSE k \in entries : Entry(k) = e])]
    IN IF x.unique /\ \E j, k \in entries : j # k /\ Prefix(j) = Prefix(k)
       THEN Failed(rows)
       ELSE Done((x.name :> filled) @@ rows)

BackfillIndexAddedColumn(s, x, col, rows) ==
    LET base == rows[x.table]
        pk == s.key[x.table]
        Value(k) == base[Tuple(pk, rows[x.name][k])][col]
    IN Done([rows EXCEPT ![x.name] =
                [k \in DOMAIN @ |-> (col :> Value(k)) @@ @[k]]])

BackfillEvaluatedColumnValue(s, st, rows) ==
    LET Value(k) ==
          IF st.evaluated = <<>> THEN Null
          ELSE st.evaluated[1].f[Tuple(st.evaluated[1].deps, rows[st.table][k])]
    IN Check(\A k \in DOMAIN rows[st.table] : st.not_null => Value(k) # Null,
             [rows EXCEPT ![st.table] =
                [k \in DOMAIN @ |-> (st.col :> Value(k)) @@ @[k]]])

VerifyForeignKeyData(fk, rows) ==
    \A k \in DOMAIN rows[fk.from_data] :
        \E to \in DOMAIN rows[fk.to_data] :
            IsPrefix(PrefixOf(k, Len(fk.cols)), to)

VerifyCheckConstraintData(check, rows) ==
    \A k \in DOMAIN rows[check.table] :
        Tuple(check.cols, rows[check.table][k]) \notin check.false

VerifyColumnNotNull(t, col, rows) ==
    \A k \in DOMAIN rows[t] : rows[t][k][col] # Null

\* The managed indexes a foreign key adds are filled before it is verified.
BackfillNewIndexes(old, new, rows) ==
    LET Step(acc, x) == IF acc.ok /\ x.name \notin DataTables(old)
                        THEN BackfillIndex(new, x, acc.rows) ELSE acc
    IN FoldLeft(Step, Done(rows), new.indexes)

RunSchemaChangeActions(old, new, st, rows) ==
    CASE st.kind = "create_index" -> BackfillNewIndexes(old, new, rows)
      [] st.kind = "add_foreign_key" ->
            LET filled == BackfillNewIndexes(old, new, rows)
            IN IF filled.ok
               THEN Check(VerifyForeignKeyData(Last(new.fks), filled.rows), filled.rows)
               ELSE filled
      [] st.kind = "add_check" -> Check(VerifyCheckConstraintData(st.check, rows), rows)
      [] st.kind = "add_column" -> BackfillEvaluatedColumnValue(new, st, rows)
      [] st.kind = "add_stored_column" ->
            BackfillIndexAddedColumn(new, IndexNamed(new, st.name)[1], st.col, rows)
      [] st.kind = "set_not_null" ->
            Check(VerifyColumnNotNull(st.table, st.col, rows), rows)
      [] st.kind \in {"drop_index", "drop_foreign_key"} ->
            Done([t \in DataTables(new) |-> rows[t]])

RunPendingActions(statements, schemas, rows) ==
    LET Step(acc, i) ==
          LET old == IF i = 1 THEN schema ELSE schemas[i - 1]
              run == RunSchemaChangeActions(old, schemas[i], statements[i], acc.rows)
          IN IF acc.ok /\ run.ok THEN [acc EXCEPT !.done = i, !.rows = run.rows]
             ELSE [acc EXCEPT !.ok = FALSE]
    IN FoldLeft(Step, [ok |-> TRUE, done |-> 0, rows |-> rows],
                [i \in DOMAIN statements |-> i])

\* Mutant: the schema of the last statement is published, whatever failed.
Published_Bug(schemas, done) == IF done = 0 THEN schema ELSE Last(schemas)

Published(schemas, done) == IF done = 0 THEN schema ELSE schemas[done]

(***************************************************************************)
(* What a change means: a statement is accepted when the rows satisfy the *)
(* schema it makes                                                         *)
(***************************************************************************)
WithColumn(view, st) ==
    LET Value(row) == IF st.evaluated = <<>> THEN Null
                      ELSE st.evaluated[1].f[Tuple(st.evaluated[1].deps, row)]
    IN [view EXCEPT ![st.table] =
            [k \in DOMAIN @ |-> (st.col :> Value(@[k])) @@ @[k]]]

ChangeMeaning(s, view, statements) ==
    LET Step(acc, st) ==
          LET new == ApplyDDLStatement(acc.schema, st)
              rows == IF st.kind = "add_column" THEN WithColumn(acc.view, st)
                      ELSE acc.view
          IN IF acc.ok /\ Consistent(new, rows)
             THEN [ok |-> TRUE, schema |-> new, view |-> rows]
             ELSE [acc EXCEPT !.ok = FALSE]
    IN IF ApplyDDLStatements(s, statements).ok
       THEN FoldLeft(Step, [ok |-> TRUE, schema |-> s, view |-> view], statements)
       ELSE [ok |-> FALSE, schema |-> s, view |-> view]

(***************************************************************************)
(* Database::UpdateSchema                                                  *)
(***************************************************************************)
UpdateSchema(change) ==
    LET applied == ApplyDDLStatements(schema, change)
        run == RunPendingActions(change, applied.schemas, storage)
        new == IF applied.ok THEN Published(applied.schemas, run.done) ELSE schema
    IN /\ phase = "committed"
       /\ schema' = [new EXCEPT !.changes = @ \ {change}]
       /\ storage' = IF applied.ok THEN run.rows ELSE storage
       /\ buffer' = [t \in DataTables(new) |-> Empty]
       /\ expected' = ChangeMeaning(schema, expected, change).view
       /\ UNCHANGED <<written, statement, queue, deleted, fk_inserted, fk_deleted,
                      phase, dml, mutations, records, versions>>

UpdateNext ==
    \/ Next
    \/ ExecuteDml
    \/ \E change \in schema.changes : UpdateSchema(change)

UpdateSpec == Init /\ [][UpdateNext]_vars /\ WF_vars(ProcessWriteOp)

\* A change of several statements takes effect up to the first statement that
\* the rows do not satisfy, and no further: the schema published is the one
\* of that prefix, although validation, backfills and verifications of a
\* statement look only at what it adds.
ChangesStopAtTheFirstFailure ==
    [][\A change \in schema.changes \ schema'.changes :
         schema' = [ChangeMeaning(schema, View, change).schema
                      EXCEPT !.changes = schema'.changes]]_vars
================================================================================
