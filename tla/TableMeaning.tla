----------------------------- MODULE TableMeaning ------------------------------
(***************************************************************************)
(* What mutations and constraints mean for the rows of the public tables, *)
(* stated without buffers, queues, index entries or effects: the          *)
(* reference that the write path is compared with.  A view maps each      *)
(* public table to its rows by key.                                        *)
(***************************************************************************)
EXTENDS KeyRanges

\* The view of a mutation that must be refused.
Refused == [t \in {} |-> Null]

Supplied(s, t, row) == DOMAIN row \ ToSet(s.key[t])

\* A row with its evaluated columns computed, e.col for each e that Computes.
Computed(s, t, row, Computes(_)) ==
    LET Step(r, e) == IF Computes(e)
                      THEN [r EXCEPT ![e.col] = e.f[Tuple(e.deps, r)]] ELSE r
    IN FoldLeft(Step, row, s.evaluated[t])

InsertedRow(s, t, row) ==
    LET Computes(e) == e.kind = "generated" \/ e.col \notin DOMAIN row
    IN Computed(s, t, row @@ [c \in ToSet(s.cols[t]) |-> Null], Computes)

UpdatedRow(s, t, old, row) ==
    LET Computes(e) == \/ e.kind = "generated"
                       \/ /\ e.kind = "on_update" /\ e.col \notin DOMAIN row
                          /\ Supplied(s, t, row) # {}
    IN Computed(s, t, row @@ old, Computes)

NullsAreAllowed(s, t, row) ==
    \A c \in DOMAIN row \ s.nullable[t] : row[c] # Null

PutRow(s, view, t, key, row) ==
    IF NullsAreAllowed(s, t, row)
    THEN [view EXCEPT ![t] = (key :> row) @@ @] ELSE Refused

InsertRow(s, view, t, key, row) ==
    LET parent == s.parent[t]
    IN IF \/ key \in DOMAIN view[t]
          \/ /\ parent # "none"
             /\ PrefixOf(key, Len(s.key[parent])) \notin DOMAIN view[parent]
       THEN Refused ELSE PutRow(s, view, t, key, InsertedRow(s, t, row))

UpdateRow(s, view, t, key, row) ==
    IF key \notin DOMAIN view[t] THEN Refused
    ELSE PutRow(s, view, t, key, UpdatedRow(s, t, view[t][key], row))

Refers(fk, row, to) ==
    /\ \A c \in ToSet(fk.cols) : row[c] # Null
    /\ Tuple(fk.cols, row) = Tuple(fk.refcols, to)

\* The rows that a deleted row takes with it, one level down.
Dependents(s, view, t, key) ==
    LET below == {<<c, k>> \in UNION {{c} \X DOMAIN view[c] : c \in ToSet(s.tables)} :
                     s.parent[c] = t /\ IsPrefix(key, k)}
        referring(fk) == {<<fk.from, k>> : k \in {k \in DOMAIN view[fk.from] :
                             Refers(fk, view[fk.from][k], view[t][key])}}
    IN [cascading |-> {d \in below : s.on_delete[d[1]] = "cascade"}
            \cup UNION {referring(fk) : fk \in {f \in ToSet(s.fks) :
                                                 f.to = t /\ f.cascade}},
        blocking |-> {d \in below : s.on_delete[d[1]] = "no_action"}]

RECURSIVE Cascade(_, _, _)
Cascade(s, view, rows) ==
    LET more == rows \cup UNION {Dependents(s, view, r[1], r[2]).cascading :
                                     r \in rows}
    IN IF more = rows THEN rows ELSE Cascade(s, view, more)

DeleteRows(s, view, t, keys) ==
    LET gone == Cascade(s, view, {t} \X (keys \cap DOMAIN view[t]))
    IN IF \E r \in gone : Dependents(s, view, r[1], r[2]).blocking # {}
       THEN Refused
       ELSE [u \in DOMAIN view |->
                [k \in {k \in DOMAIN view[u] : <<u, k>> \notin gone} |-> view[u][k]]]

Meaning(s, view, m) ==
    IF m.op = "delete"
    THEN DeleteRows(s, view, m.table, {k \in DOMAIN view[m.table] :
                                          InKeySet(s.order[m.table], m.key_set, k)})
    ELSE LET t == m.table
             key == Tuple(s.key[t], m.row)
             without == DeleteRows(s, view, t, {key})
         IN IF ~ValidateNonDeleteMutationOp(s, m) THEN Refused
            ELSE CASE m.op = "update" \/ (m.op = "insert_or_update"
                                            /\ key \in DOMAIN view[t]) ->
                        UpdateRow(s, view, t, key, m.row)
                   [] m.op = "replace" ->
                        IF without = Refused THEN Refused
                        ELSE InsertRow(s, without, t, key, m.row)
                   [] OTHER -> InsertRow(s, view, t, key, m.row)

(***************************************************************************)
(* What the constraints of a schema require of a view                     *)
(***************************************************************************)
IndexedRows(s, view, x) ==
    {k \in DOMAIN view[x.table] :
        ~(x.null_filtered /\ \E c \in ToSet(x.keys) : view[x.table][k][c] = Null)}

IndexImage(s, view, x) ==
    {Tuple(s.cols[x.name], view[x.table][k]) : k \in IndexedRows(s, view, x)}

Consistent(s, view) ==
    /\ \A t \in ToSet(s.tables) : s.parent[t] # "none" =>
          \A k \in DOMAIN view[t] :
              PrefixOf(k, Len(s.key[s.parent[t]])) \in DOMAIN view[s.parent[t]]
    /\ \A fk \in ToSet(s.fks) : \A k \in DOMAIN view[fk.from] :
          LET row == view[fk.from][k]
          IN (\A c \in ToSet(fk.cols) : row[c] # Null) =>
               \E to \in DOMAIN view[fk.to] : Refers(fk, row, view[fk.to][to])
    /\ \A x \in ToSet(s.indexes) : x.unique =>
          \A j, k \in IndexedRows(s, view, x) :
              Tuple(x.keys, view[x.table][j]) = Tuple(x.keys, view[x.table][k])
                  => j = k
    /\ \A t \in ToSet(s.tables) : \A k \in DOMAIN view[t] :
          NullsAreAllowed(s, t, view[t][k])
    /\ \A c \in ToSet(s.checks) : \A k \in DOMAIN view[c.table] :
          Tuple(c.cols, view[c.table][k]) \notin c.false
================================================================================
