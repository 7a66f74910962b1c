---------------------------------- MODULE Dml ----------------------------------
(***************************************************************************)
(* DML statements (query_engine): the engine narrows what it reads, the    *)
(* evaluator works out the rows, and these become the mutations of one     *)
(* Write, or of two for INSERT ... ON CONFLICT DO UPDATE, each row of which *)
(* takes the path of WritePath.  A statement is                            *)
(*   [kind |-> "delete", table, where]                                     *)
(*   [kind |-> "update", table, where, set]                                *)
(*   [kind |-> "insert", table, mode, rows]  mode: error, ignore, update   *)
(*   [kind |-> "on_conflict", table, rows, target, set, where]             *)
(* where set maps columns to expressions and is empty for DO NOTHING, and  *)
(* target is [name, cols]: a unique index by name, or columns.  GoogleSQL  *)
(* evaluates the filter, the expressions and the defaults of the rows to   *)
(* insert.                                                                 *)
(***************************************************************************)
EXTENDS WritePath, KeyNarrowing

(***************************************************************************)
(* GoogleSQL's evaluator                                                   *)
(***************************************************************************)
\* The value of a SET expression, given the row and the row not inserted.
SetValue(e, row, excluded) ==
    CASE e.from = "row" -> row[e.of]
      [] e.from = "excluded" -> excluded[e.of]
      [] e.from = "constant" -> e.of

SetRow(set, row, excluded) == [c \in DOMAIN set |-> SetValue(set[c], row, excluded)]

KeyOf(t, row) == Tuple(schema.key[t], InsertedRow(schema, t, row))

Pick(rows, indices) ==
    LET order == SetToSortSeq(indices, <)
    IN [i \in DOMAIN order |-> rows[order[i]]]

\* The positions whose key an earlier position has.
Repeated(keys) == {i \in DOMAIN keys : \E j \in 1..(i - 1) : keys[j] = keys[i]}

(***************************************************************************)
(* What the statements mean                                                *)
(***************************************************************************)
\* A view after a step for each of some rows, refused when one of them is.
Each(Step(_, _), view, rows) ==
    LET Go(v, r) == IF v = Refused THEN Refused ELSE Step(v, r)
    IN FoldLeft(Go, view, rows)

InsertMeaning(st, view) ==
    LET t == st.table
        Insert(v, r) ==
          IF KeyOf(t, r) \notin DOMAIN v[t]
          THEN InsertRow(schema, v, t, KeyOf(t, r), r)
          ELSE CASE st.mode = "error" -> Refused
                 [] st.mode = "ignore" -> v
                 [] st.mode = "update" -> UpdateRow(schema, v, t, KeyOf(t, r), r)
    IN Each(Insert, view, st.rows)

UpdateMeaning(t, view, Chosen(_), New(_)) ==
    LET Update(v, k) == UpdateRow(schema, v, t, k, New(view[t][k]))
    IN Each(Update, view, SetToSeq({k \in DOMAIN view[t] : Chosen(view[t][k])}))

(***************************************************************************)
(* Reading and building mutations                                          *)
(***************************************************************************)
\* The keys the scan of a table yields, narrowed to a key set or not.
ScanKeys(t, key_set) ==
    Scan(Order(t), IF key_set = <<>> THEN <<All>>
                   ELSE MakeDisjointKeyRanges(Order(t), key_set[1]), Keys(t))

Selected(t, filter) ==
    LET Chosen(k) == Matches(filter, Lookup(t, k))
    IN SelectSeq(ScanKeys(t, KeySetFromFilters(schema.key[t], Order(t), filter)),
                 Chosen)

NonGenerated(t) == Cols(t) \ Generated(schema, t)

RowMutation(op, t, row) == [op |-> op, table |-> t, row |-> row]

\* The columns listed, the key's and, for an insert, those with a default.
BuildInsert(op, t, rows) ==
    LET Columns(r) == (DOMAIN r \cup ToSet(schema.key[t])
                         \cup IF op = "insert" THEN HasDefault(schema, t) ELSE {})
                      \cap NonGenerated(t)
    IN [i \in DOMAIN rows |->
          RowMutation(op, t, [c \in Columns(rows[i]) |->
                                InsertedRow(schema, t, rows[i])[c]])]

\* Every column that is not generated, updated (set[i] for the i-th key) or not.
BuildUpdate(t, keys, set) ==
    [i \in DOMAIN keys |->
        LET row == set[i] @@ Lookup(t, keys[i])
        IN RowMutation("update", t, [c \in NonGenerated(t) |-> row[c]])]

BuildDelete(t, keys) ==
    [op |-> "delete", table |-> t, key_set |-> [keys |-> keys, ranges |-> <<>>]]

\* One Write of the rows of a statement, and what remains to do after it.
WriteRows(rows, update, meaning) ==
    /\ dml' = [rest |-> rows, update |-> update]
    /\ phase' = "dml"
    /\ mutations' = mutations + 1
    /\ expected' = meaning
    /\ UNCHANGED <<schema, storage, buffer, written, statement, queue, deleted,
                   fk_inserted, fk_deleted, records, versions>>

CanExecute == phase = "idle" /\ mutations < schema.max_mutations

ExecuteDelete(st) ==
    LET t == st.table
        meant == {k \in DOMAIN expected[t] : Matches(st.where, expected[t][k])}
    IN /\ CanExecute
       /\ st.kind = "delete"
       /\ ApplyDelete(BuildDelete(t, Selected(t, st.where)),
                      DeleteRows(schema, expected, t, meant),
                      [phase |-> "dml", dml |-> NoDml, mutations |-> mutations + 1])

ExecuteUpdate(st) ==
    LET t == st.table
        New(row) == SetRow(st.set, row, row)
        Chosen(row) == Matches(st.where, row)
        keys == Selected(t, st.where)
    IN /\ CanExecute
       /\ st.kind = "update"
       /\ WriteRows(BuildUpdate(t, keys, [i \in DOMAIN keys |-> New(Lookup(t, keys[i]))]),
                    <<>>, UpdateMeaning(t, expected, Chosen, New))

\* A key that exists, or is listed twice, is a constraint error, skipped or
\* updated; OR UPDATE refuses a statement that lists a key twice.
ExecuteInsert(st) ==
    LET t == st.table
        keys == [i \in DOMAIN st.rows |-> KeyOf(t, st.rows[i])]
        found == ToSet(ScanKeys(t, InsertedKeys(schema.key[t], st.rows)))
        taken == Repeated(keys) \cup {i \in DOMAIN keys : keys[i] \in found}
        meaning == InsertMeaning(st, expected)
    IN /\ CanExecute
       /\ st.kind = "insert"
       /\ CASE st.mode = "error" /\ taken # {} -> Fail /\ expected' = meaning
            [] st.mode = "update" /\ Repeated(keys) # {} -> UNCHANGED vars
            [] st.mode = "update" /\ Repeated(keys) = {} ->
                 WriteRows(BuildInsert("insert_or_update", t, st.rows), <<>>, meaning)
            [] OTHER ->
                 WriteRows(BuildInsert("insert", t, Pick(st.rows, DOMAIN keys \ taken)),
                           <<>>, meaning)

(***************************************************************************)
(* INSERT ... ON CONFLICT                                                  *)
(***************************************************************************)
PrimaryKey == "PRIMARY_KEY"

\* The constraint a conflict target names, <<>> when the statement is refused.
ResolveConflictTarget(t, target) ==
    LET Candidate(x) == IF target.name # "none" THEN x.name = target.name
                        ELSE x.unique /\ ToSet(x.keys) = ToSet(target.cols)
        first == SelectSeq(IndexesOf(schema, t), Candidate)
    IN IF target.name = "none" /\ ToSet(target.cols) = ToSet(schema.key[t])
       THEN <<[name |-> PrimaryKey, cols |-> schema.key[t]]>>
       ELSE IF \/ first = <<>> \/ ~first[1].unique
               \/ target.name = "none" /\ first[1].null_filtered
       THEN <<>> ELSE <<[name |-> first[1].name, cols |-> first[1].keys]>>

GetOriginalTableRows(t, constraint) ==
    LET read == IF constraint.name = PrimaryKey THEN t ELSE constraint.name
    IN {Tuple(constraint.cols, Lookup(read, k)) : k \in Keys(read)}

\* The rows that conflict with none are inserted by one Write; DO UPDATE then
\* updates the rows in conflict by another.
ExecuteInsertOnConflictDml(st) ==
    LET t == st.table
        constraint == ResolveConflictTarget(t, st.target)[1]
        rows == [i \in DOMAIN st.rows |-> InsertedRow(schema, t, st.rows[i])]
        keys == [i \in DOMAIN rows |-> Tuple(constraint.cols, rows[i])]
        do_update == st.set # NoRow
        original == GetOriginalTableRows(t, constraint)
        existing == {i \in DOMAIN rows : keys[i] \in original}
        new == Pick(st.rows, DOMAIN rows \ (existing \cup Repeated(keys)))
        new_keys == [i \in DOMAIN new |-> KeyOf(t, new[i])]
        update == IF do_update /\ existing # {}
                  THEN <<[cols |-> constraint.cols, st |-> st,
                          rows |-> ToSet(Pick(rows, existing))]>> ELSE <<>>
        free == {i \in DOMAIN rows \ Repeated(keys) : \A k \in DOMAIN expected[t] :
                    Tuple(constraint.cols, expected[t][k]) # keys[i]}
        meaning == InsertMeaning([table |-> t, mode |-> "error",
                                  rows |-> Pick(st.rows, free)], expected)
    IN /\ CanExecute
       /\ st.kind = "on_conflict"
       /\ IF \/ ResolveConflictTarget(t, st.target) = <<>>
             \/ do_update /\ Repeated(keys) # {}
          THEN UNCHANGED vars
          ELSE IF Repeated(new_keys) # {} \/ ToSet(new_keys) \cap Keys(t) # {}
          THEN Fail /\ expected' = meaning
          ELSE WriteRows(BuildInsert("insert", t, new), update, meaning)

UpdateExistingRows ==
    LET u == dml.update[1]
        t == u.st.table
        For(row) == {x \in u.rows : Tuple(u.cols, x) = Tuple(u.cols, row)}
        Chosen(row) == For(row) # {} /\ Matches(u.st.where, row)
        New(row) == SetRow(u.st.set, row, CHOOSE x \in For(row) : TRUE)
        Hit(k) == Chosen(Lookup(t, k))
        keys == SelectSeq(ScanKeys(t, <<>>), Hit)
    IN /\ phase = "conflict"
       /\ WriteRows(BuildUpdate(t, keys, [i \in DOMAIN keys |-> New(Lookup(t, keys[i]))]),
                    <<>>, UpdateMeaning(t, expected, Chosen, New))

DmlRow ==
    /\ phase = "dml" /\ queue = <<>> /\ dml.rest # <<>>
    /\ ApplyRow(Head(dml.rest), expected,
                [phase |-> "dml", dml |-> [dml EXCEPT !.rest = Tail(@)],
                 mutations |-> mutations])

ExecuteDml ==
    \/ \E st \in schema.statements :
          \/ ExecuteDelete(st)
          \/ ExecuteUpdate(st)
          \/ ExecuteInsert(st)
          \/ ExecuteInsertOnConflictDml(st)
    \/ DmlRow
    \/ UpdateExistingRows
================================================================================
