----------------------------- MODULE MCWritePath -------------------------------
EXTENDS SchemaUpdate

Rows(t, rows) == {[op |-> o, table |-> t, row |-> r] : o \in rows[1], r \in rows[2]}
Deletes(t, sets) ==
    {[op |-> "delete", table |-> t,
      key_set |-> [keys |-> SetToSeq(keys), ranges |-> <<>>]] : keys \in sets}

Base(tables) ==
    [tables |-> tables, parent |-> [t \in ToSet(tables) |-> "none"],
     on_delete |-> [t \in ToSet(tables) |-> "no_action"],
     evaluated |-> [t \in ToSet(tables) |-> <<>>],
     indexes |-> <<>>, checks |-> <<>>, fks |-> <<>>, streams |-> {},
     changes |-> {}, statements |-> {}, max_mutations |-> 3]

Ordered(s) ==
    s @@ [order |-> [t \in ToSet(s.tables) |-> [i \in DOMAIN s.key[t] |-> Ascending]]]

Stream(name, tracks, capture) ==
    [name |-> name, tracks |-> tracks, capture |-> capture,
     exclude |-> {}, allow_exclusion |-> FALSE]

\* P with an interleaved child C and a table R that refers to P's key and is
\* deleted with it, through a null-filtered managed index.
Cascades == CreateForeignKeyConstraint(
    [cols |-> [P |-> <<"k">>, C |-> <<"k", "c">>, R |-> <<"r", "p">>],
     key |-> [P |-> <<"k">>, C |-> <<"k", "c">>, R |-> <<"r">>],
     nullable |-> [P |-> {}, C |-> {}, R |-> {"p"}],
     parent |-> [P |-> "none", C |-> "P", R |-> "none"],
     on_delete |-> [P |-> "no_action", C |-> "cascade", R |-> "no_action"],
     streams |-> {Stream("s", [R |-> {"p"}], "OLD_AND_NEW_VALUES")},
     mutations |->
        Rows("P", <<{"insert", "replace"}, [k : {1}]>>)
        \cup Rows("C", <<{"insert"}, [k : {1}, c : {1}]>>)
        \cup Rows("R", <<{"insert", "update"}, [r : {1}, p : {0, 1}]>>)
        \cup Rows("R", <<{"insert"}, [r : {2}, p : {1}]>>)
        \cup Deletes("P", {{<<1>>}})
        \cup Deletes("R", {{<<1>>, <<2>>}})]
      @@ Base(<<"P", "C", "R">>),
    [name |-> "fk", from |-> "R", cols |-> <<"p">>, to |-> "P",
     refcols |-> <<"k">>, cascade |-> TRUE,
     to_index |-> "IDX_P", from_index |-> "IDX_R"])

\* T with a generated column under a unique index, a default and a check.
Evaluated == CreateIndex(
    [cols |-> [T |-> <<"k", "a", "d", "g">>], key |-> [T |-> <<"k">>],
     nullable |-> [T |-> {"a", "d", "g"}],
     evaluated |-> [T |-> <<
        [col |-> "d", kind |-> "default", deps |-> <<>>, f |-> (<<>> :> 2)],
        [col |-> "g", kind |-> "generated", deps |-> <<"a">>,
         f |-> [x \in {<<0>>, <<1>>, <<2>>} |->
                   IF x = <<0>> THEN 0 ELSE 3 - x[1]]]>>],
     checks |-> <<[table |-> "T", cols |-> <<"g", "d">>, false |-> {<<1, 1>>}]>>,
     streams |-> {Stream("s", [T |-> {"a", "d"}], "OLD_AND_NEW_VALUES"),
                  Stream("w", [T |-> {"d"}], "NEW_ROW_AND_OLD_VALUES"),
                  [Stream("n", [T |-> {"a"}], "NEW_VALUES")
                     EXCEPT !.allow_exclusion = TRUE],
                  [Stream("x", [T |-> {"a", "d"}], "NEW_ROW")
                     EXCEPT !.exclude = {"delete"}]},
     mutations |->
        Rows("T", <<{"insert", "insert_or_update"}, [k : {1}, a : {1, 2}]>>)
        \cup Rows("T", <<{"insert"}, [k : {2}, a : {1}, d : {1}]>>)
        \cup Rows("T", <<{"update"}, [k : {2}, d : {2}]>>)
        \cup Rows("T", <<{"replace", "insert_or_update"}, [k : {1}, d : {1}]>>)
        \cup Deletes("T", {{<<1>>}, {<<1>>, <<2>>}})]
      @@ Base(<<"T">>),
    [name |-> "IDX_T", table |-> "T", keys |-> <<"g">>, storing |-> <<"d">>,
     unique |-> TRUE, null_filtered |-> TRUE])

\* B refers to A's key with its own key columns in another order, and D to a
\* unique non-key column of A; both are deleted with the row they refer to.
Shapes == CreateForeignKeyConstraint(CreateForeignKeyConstraint(
    [cols |-> [A |-> <<"x", "y", "u">>, B |-> <<"q", "p">>, D |-> <<"d", "e">>],
     key |-> [A |-> <<"x", "y">>, B |-> <<"q", "p">>, D |-> <<"d">>],
     nullable |-> [A |-> {"u"}, B |-> {}, D |-> {}],
     mutations |->
        Rows("A", <<{"insert_or_update"}, [x : {1}, y : {2}, u : {0, 1}]>>)
        \cup Rows("A", <<{"insert"}, [x : {2}, y : {1}, u : {1}]>>)
        \cup Rows("B", <<{"insert"}, [p : {1}, q : {2}]>>)
        \cup Rows("D", <<{"insert_or_update"}, [d : {1}, e : {1, 2}]>>)
        \cup Deletes("A", {{<<1, 2>>}, {<<1, 2>>, <<2, 1>>}})]
      @@ Base(<<"A", "B", "D">>),
    [name |-> "b", from |-> "B", cols |-> <<"p", "q">>, to |-> "A",
     refcols |-> <<"x", "y">>, cascade |-> TRUE,
     to_index |-> "IDX_A", from_index |-> "IDX_B"]),
    [name |-> "d", from |-> "D", cols |-> <<"e">>, to |-> "A",
     refcols |-> <<"u">>, cascade |-> TRUE,
     to_index |-> "IDX_U", from_index |-> "IDX_D"])

\* T and R, to which schema changes add what constrains them.
Growing ==
    [cols |-> [T |-> <<"k", "a">>, R |-> <<"r", "p">>],
     key |-> [T |-> <<"k">>, R |-> <<"r">>],
     nullable |-> [T |-> {"a"}, R |-> {"p"}],
     max_mutations |-> 2,
     mutations |->
        Rows("T", <<{"insert"}, [k : {1}, a : {0, 1}]>>)
        \cup Rows("T", <<{"insert"}, [k : {2}, a : {1}]>>)
        \cup Rows("R", <<{"insert_or_update"}, [r : {1}, p : {0, 1}]>>)
        \cup Deletes("T", {{<<1>>}}),
     changes |-> {
        <<[kind |-> "add_column", table |-> "T", col |-> "g", not_null |-> TRUE,
           evaluated |-> <<[col |-> "g", kind |-> "generated", deps |-> <<"a">>,
              f |-> [x \in {<<0>>, <<1>>} |-> x[1]]]>>],
          [kind |-> "set_not_null", table |-> "T", col |-> "a"]>>,
        <<[kind |-> "create_index",
           index |-> [name |-> "I", table |-> "R", keys |-> <<"p">>, storing |-> <<>>,
                      unique |-> FALSE, null_filtered |-> FALSE]],
          [kind |-> "add_column", table |-> "R", col |-> "d", not_null |-> TRUE,
           evaluated |-> <<[col |-> "d", kind |-> "default", deps |-> <<>>,
                            f |-> (<<>> :> 1)]>>],
          [kind |-> "add_foreign_key",
           fk |-> [name |-> "fk", from |-> "R", cols |-> <<"p">>, to |-> "T",
                   refcols |-> <<"a">>, cascade |-> TRUE,
                   to_index |-> "IDX_T", from_index |-> "IDX_R"]],
          [kind |-> "add_stored_column", name |-> "I", col |-> "d"]>>,
        <<[kind |-> "add_check",
           check |-> [table |-> "R", cols |-> <<"p", "r">>, false |-> {<<1, 1>>}]],
          [kind |-> "drop_index", name |-> "I"],
          [kind |-> "drop_foreign_key", name |-> "fk"]>>}]
      @@ Base(<<"T", "R">>)

\* T, read by the leading and the descending, nullable columns of its key, and
\* written by DML statements.
Col(c) == [kind |-> "column", of |-> c]
Const(v) == [kind |-> "constant", of |-> v]
Expr(v) == [kind |-> "expression", of |-> v]
Call(fn, args) == [fn |-> fn, args |-> args]

Insert(mode, rows) == [kind |-> "insert", table |-> "T", mode |-> mode, rows |-> rows]
Delete(where) == [kind |-> "delete", table |-> "T", where |-> where]
Update(set, where) == [kind |-> "update", table |-> "T", set |-> set, where |-> where]
OnConflict(rows, target, set, where) ==
    [kind |-> "on_conflict", table |-> "T", rows |-> rows, target |-> target,
     set |-> set, where |-> where]

Queried == CreateIndex(
    [cols |-> [T |-> <<"k", "n", "a", "d">>], key |-> [T |-> <<"k", "n">>],
     order |-> [T |-> <<Ascending, Descending>>],
     nullable |-> [T |-> {"n", "a"}],
     evaluated |-> [T |-> <<
        [col |-> "d", kind |-> "default", deps |-> <<>>, f |-> (<<>> :> 2)]>>],
     streams |-> {Stream("s", [T |-> {"a", "d"}], "OLD_AND_NEW_VALUES")},
     max_mutations |-> 2,
     mutations |-> {[op |-> "delete", table |-> "T", key_set |-> ks] : ks \in {
        [keys |-> <<<<2, 1>>>>,
         ranges |-> <<KeyRange("open", Key(<<1, 2>>), "closed", Key(<<1>>))>>],
        [keys |-> <<>>, ranges |-> <<ClosedOpen(Key(<<1, 1>>), Key(<<2, 0>>)),
                                     ClosedClosed(Key(<<1>>), Key(<<1>>))>>]}},
     statements |-> {
        Insert("error", <<[k |-> 1, n |-> 0, a |-> 1], [k |-> 2, n |-> 1, a |-> 2]>>),
        Insert("ignore", <<[k |-> 1, n |-> 2, a |-> 0], [k |-> 1, n |-> 2, a |-> 1]>>),
        Insert("ignore", <<[k |-> 1, a |-> 2]>>),
        Insert("update", <<[k |-> 1, n |-> 1, d |-> 2], [k |-> 2, n |-> 1, d |-> 2]>>),
        Insert("update", <<[k |-> 1, n |-> 1, d |-> 2], [k |-> 1, n |-> 1, d |-> 1]>>),
        OnConflict(<<[k |-> 1, n |-> 1, a |-> 2], [k |-> 2, n |-> 1, a |-> 0]>>,
                   [name |-> "none", cols |-> <<"n", "k">>],
                   [a |-> [from |-> "excluded", of |-> "a"]],
                   <<Call("equal", <<Col("a"), Const(1)>>)>>),
        OnConflict(<<[k |-> 1, n |-> 2, a |-> 2], [k |-> 2, n |-> 1, a |-> 1]>>,
                   [name |-> "none", cols |-> <<"a">>],
                   [a |-> [from |-> "row", of |-> "k"]], <<>>),
        OnConflict(<<[k |-> 2, n |-> 1, a |-> 1], [k |-> 1, n |-> 1, a |-> 1]>>,
                   [name |-> "U", cols |-> <<>>], NoRow, <<>>),
        Delete(<<Call("equal", <<Col("k"), Const(1)>>),
                 Call("greater", <<Const(2), Col("n")>>)>>),
        Delete(<<Call("in", <<Col("k"), Const(1), Const(0), Const(2)>>),
                 Call("less_or_equal", <<Col("k"), Const(1)>>),
                 Call("in", <<Col("n"), Const(2), Const(1), Expr(1)>>)>>),
        Delete(<<Call("equal", <<Col("k"), Expr(1)>>),
                 Call("equal", <<Const(2), Col("n")>>)>>),
        Delete(<<Call("between", <<Col("k"), Const(1), Const(2)>>),
                 Call("less", <<Col("k"), Const(2)>>),
                 Call("greater_or_equal", <<Col("k"), Const(1)>>),
                 Call("not_equal", <<Col("a"), Const(1)>>)>>),
        Update([a |-> [from |-> "row", of |-> "n"]],
               <<Call("in", <<Col("k"), Const(1), Const(2)>>),
                 Call("between", <<Col("n"), Const(1), Const(2)>>)>>),
        Update([a |-> [from |-> "constant", of |-> 0]],
               <<Call("in", <<Col("k"), Const(1), Const(2)>>),
                 Call("in", <<Col("n"), Const(1), Const(2)>>)>>)}]
      @@ Base(<<"T">>),
    [name |-> "U", table |-> "T", keys |-> <<"a">>, storing |-> <<"d">>,
     unique |-> TRUE, null_filtered |-> FALSE])

AllSchemas == {Ordered(s) : s \in {Cascades, Evaluated, Shapes, Growing, Queried}}

\* C refers to P with its own primary key, so no index backs the reference.
KeyReference == CreateForeignKeyConstraint(
    [cols |-> [P |-> <<"k">>, C |-> <<"k", "v">>],
     key |-> [P |-> <<"k">>, C |-> <<"k">>],
     nullable |-> [P |-> {}, C |-> {"v"}],
     mutations |->
        Rows("P", <<{"insert"}, [k : {1, 2}]>>)
        \cup Rows("C", <<{"insert", "update"}, [k : {1, 2}, v : {1, 2}]>>)
        \cup Deletes("P", {{<<1>>}})]
      @@ Base(<<"P", "C">>),
    [name |-> "fk", from |-> "C", cols |-> <<"k">>, to |-> "P",
     refcols |-> <<"k">>, cascade |-> FALSE,
     to_index |-> "IDX_P", from_index |-> "IDX_C"])

KeyReferences == {Ordered(KeyReference)}
================================================================================
