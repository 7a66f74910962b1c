------------------------------ MODULE TableSchema ------------------------------
(***************************************************************************)
(* What the write path reads off a schema.  A schema is a record          *)
(*   tables     the public tables, in the order Schema::tables() has them *)
(*   cols, key  the columns and the primary key of each data table, and   *)
(*              order, how each public table orders its key columns       *)
(*   nullable   the columns of each data table that may hold NULL         *)
(*   parent     the interleaving parent, or "none", and on_delete, the    *)
(*              action of INTERLEAVE IN PARENT                            *)
(*   evaluated  the non-key columns with an expression, in topological    *)
(*              order: column, kind, the columns it depends on, and the   *)
(*              value it computes for each tuple of theirs                *)
(*   indexes, checks, fks, streams   the other objects of the schema      *)
(* An index's data table has the index's name.  Values are natural        *)
(* numbers and 0 is NULL; a key is the tuple of the key columns' values.  *)
(***************************************************************************)
EXTENDS Integers, Sequences, SequencesExt, FiniteSets, FiniteSetsExt, TLC

Null == 0

Without(s, S) == SelectSeq(s, LAMBDA c : c \notin S)

Tuple(cs, row) == [i \in DOMAIN cs |-> row[cs[i]]]

\* The value of each column of cs in a row that may lack some of them.
ValueOrNull(cs, row) ==
    [i \in DOMAIN cs |-> IF cs[i] \in DOMAIN row THEN row[cs[i]] ELSE Null]

PrefixOf(key, n) == SubSeq(key, 1, n)

(***************************************************************************)
(* Indexes.  The data table's key is the index's columns and then what is *)
(* left of the base table's primary key; stored columns follow.           *)
(***************************************************************************)
IndexKey(s, x) == x.keys \o Without(s.key[x.table], ToSet(x.keys))

CreateIndex(s, x) ==
    LET key == IndexKey(s, x)
        cols == key \o x.storing
    IN [s EXCEPT !.indexes = Append(@, x),
                 !.cols = (x.name :> cols) @@ @,
                 !.key = (x.name :> key) @@ @,
                 !.nullable = (x.name :>
                    IF x.null_filtered THEN {}
                    ELSE ToSet(cols) \cap s.nullable[x.table]) @@ @]

IndexesOf(s, t) == SelectSeq(s.indexes, LAMBDA x : x.table = t)

ComputeIndexKey(s, x, row) == ValueOrNull(s.key[x.name], row)

ComputeIndexValues(s, x, row) ==
    [c \in ToSet(s.cols[x.name]) |-> IF c \in DOMAIN row THEN row[c] ELSE Null]

ShouldFilterIndexKey(x, key) ==
    x.null_filtered /\ \E i \in 1..Len(x.keys) : key[i] = Null

(***************************************************************************)
(* Foreign keys.  The columns are reordered to follow the referenced      *)
(* primary key; a side whose columns are not the primary key (referenced) *)
(* or a prefix of it (referencing) is backed by a managed index, and      *)
(* nullable columns need a null-filtered one.  The managed index's name,  *)
(* which its table and columns determine, is given with the foreign key.  *)
(***************************************************************************)
LeadingKeyColumns(key, names) ==
    PrefixOf(key, Max({n \in 0..Len(key) : \A i \in 1..n : key[i] \in names}))

ForeignKeyColumnOrder(s, fk) ==
    LET names == ToSet(fk.refcols)
        lead == LeadingKeyColumns(s.key[fk.to], names)
        rest == SelectSeq(s.cols[fk.to],
                          LAMBDA c : c \in names \ ToSet(lead))
    IN [i \in DOMAIN fk.refcols |->
            CHOOSE j \in DOMAIN fk.refcols : fk.refcols[j] = (lead \o rest)[i]]

Reordered(names, order) == [i \in DOMAIN names |-> names[order[i]]]

ReferencedIndexRequired(s, fk) == ToSet(fk.refcols) # ToSet(s.key[fk.to])

ReferencingIndexRequired(s, fk, order) ==
    \/ Len(fk.cols) > Len(s.key[fk.from])
    \/ ToSet(fk.cols) \cap s.nullable[fk.from] # {}
    \/ \E i \in DOMAIN fk.cols :
          ~ \E j \in DOMAIN fk.cols :
               fk.cols[j] = s.key[fk.from][i] /\ order[j] = i

CreateForeignKeyIndex(s, name, t, names, unique) ==
    IF name \in DOMAIN s.key THEN s
    ELSE CreateIndex(s, [name |-> name, table |-> t, keys |-> names,
                         storing |-> <<>>, unique |-> unique,
                         null_filtered |-> ToSet(names) \cap s.nullable[t] # {}])

CreateForeignKeyConstraint(s, fk) ==
    LET order == ForeignKeyColumnOrder(s, fk)
        to_names == Reordered(fk.refcols, order)
        from_names == Reordered(fk.cols, order)
        s1 == IF ReferencedIndexRequired(s, fk)
              THEN CreateForeignKeyIndex(s, fk.to_index, fk.to, to_names, TRUE)
              ELSE s
        s2 == IF ReferencingIndexRequired(s, fk, order)
              THEN CreateForeignKeyIndex(s1, fk.from_index, fk.from,
                                         from_names, FALSE)
              ELSE s1
    IN [s2 EXCEPT !.fks = Append(@,
            [to_data |-> IF ReferencedIndexRequired(s, fk)
                         THEN fk.to_index ELSE fk.to,
             from_data |-> IF ReferencingIndexRequired(s, fk, order)
                           THEN fk.from_index ELSE fk.from] @@ fk)]

ReferencingForeignKeys(s, t) == SelectSeq(s.fks, LAMBDA fk : fk.to = t)

\* The shape a foreign key's columns have in a primary key.
GetKeyPrefixShape(names, key) ==
    CASE Len(names) > Len(key) -> "none"
      [] IsPrefix(names, key) ->
            IF Len(names) < Len(key) THEN "in_order_prefix" ELSE "in_order"
      [] OTHER -> IF \A i \in DOMAIN names : key[i] \in ToSet(names)
                  THEN "out_of_order" ELSE "none"

\* For each column of a key, the value the list of columns has for it; the
\* key is cut at the first column the list lacks.
ComputePk(values, names, key) ==
    [i \in DOMAIN LeadingKeyColumns(key, ToSet(names)) |->
        values[CHOOSE j \in DOMAIN names : names[j] = key[i]]]

Children(s, t) == SelectSeq(s.tables, LAMBDA c : s.parent[c] = t)

DataTables(s) == DOMAIN s.key

Generated(s, t) ==
    {e.col : e \in {x \in ToSet(s.evaluated[t]) : x.kind = "generated"}}

HasDefault(s, t) ==
    {e.col : e \in {x \in ToSet(s.evaluated[t]) : x.kind # "generated"}}

\* What an insert, an insert-or-update and a replace must supply, and what no
\* mutation may.
ValidateNonDeleteMutationOp(s, m) ==
    /\ DOMAIN m.row \cap Generated(s, m.table) = {}
    /\ m.op # "update" => ToSet(s.cols[m.table]) \
         (s.nullable[m.table] \cup Generated(s, m.table) \cup HasDefault(s, m.table))
         \subseteq DOMAIN m.row
================================================================================
