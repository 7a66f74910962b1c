----------------------------- MODULE ChangeRecords -----------------------------
(***************************************************************************)
(* The data change records a transaction leaves in a change stream        *)
(* (backend/actions/change_stream.cc): the buffered operations, table by  *)
(* table and in key order, become mods; consecutive mods of one kind, one *)
(* table and one set of columns share a record.  A stream is a record     *)
(*   name, tracks (table -> its tracked non-key columns),                 *)
(*   capture (the value capture type), exclude (kinds of mods left out)   *)
(*   and allow_exclusion (whether a transaction may opt out).             *)
(* A mod holds the key and the old and new values as functions on columns;*)
(* an operation is [type, table, key, row], a delete's row is empty.      *)
(***************************************************************************)
EXTENDS TableSchema

NoRow == [c \in {} |-> Null]

HasOldValues(stream) ==
    stream.capture \in {"OLD_AND_NEW_VALUES", "NEW_ROW_AND_OLD_VALUES"}

RecordsOnlyModified(stream) ==
    stream.capture \in {"OLD_AND_NEW_VALUES", "NEW_VALUES"}

Modified(stream, op) == DOMAIN op.row \cap stream.tracks[op.table]

GetColumnsForDataChangeRecord(stream, op) ==
    IF op.type = "update" /\ RecordsOnlyModified(stream)
    THEN Modified(stream, op)
    ELSE stream.tracks[op.table]

GetNewValues(stream, op, committed) ==
    IF op.type = "delete" THEN NoRow
    ELSE [c \in GetColumnsForDataChangeRecord(stream, op) |->
            IF c \in DOMAIN op.row THEN op.row[c]
            ELSE IF op.type = "insert" THEN Null
            ELSE committed[op.table][op.key][c]]

\* A deleted row that is not in the storage has no committed values to read.
GetOldValues(stream, op, committed) ==
    IF op.type = "insert" \/ ~HasOldValues(stream)
         \/ op.key \notin DOMAIN committed[op.table] THEN NoRow
    ELSE [c \in IF op.type = "update" THEN Modified(stream, op)
                ELSE GetColumnsForDataChangeRecord(stream, op) |->
            committed[op.table][op.key][c]]

NoGroup == [table |-> "none", type |-> "none", cols |-> {}, mods |-> <<>>]

Close(log) ==
    IF log.group = NoGroup THEN log
    ELSE [records |-> Append(log.records, log.group), group |-> NoGroup]

\* Mutant: mods with other columns join the group.
LogTableMod_Bug(stream, log, op, committed) ==
    LET cols == GetColumnsForDataChangeRecord(stream, op)
        new == GetNewValues(stream, op, committed)
        same == log.group.table = op.table /\ log.group.type = op.type
        open == IF same THEN log ELSE Close(log)
    IN IF op.type = "update" /\ new = NoRow THEN open
       ELSE [open EXCEPT !.group =
                [table |-> op.table, type |-> op.type, cols |-> cols,
                 mods |-> Append(@.mods,
                            [key |-> op.key, new |-> new,
                             old |-> GetOldValues(stream, op, committed)])]]

\* One mod: a group of another kind, table or set of columns is closed, even
\* when the mod itself, an update of no tracked column, is not recorded.
LogTableMod(stream, log, op, committed) ==
    LET cols == GetColumnsForDataChangeRecord(stream, op)
        new == GetNewValues(stream, op, committed)
        same == /\ log.group.table = op.table
                /\ log.group.type = op.type
                /\ log.group.cols = cols
        open == IF same THEN log ELSE Close(log)
    IN IF op.type = "update" /\ new = NoRow THEN open
       ELSE [open EXCEPT !.group =
                [table |-> op.table, type |-> op.type, cols |-> cols,
                 mods |-> Append(@.mods,
                            [key |-> op.key, new |-> new,
                             old |-> GetOldValues(stream, op, committed)])]]

\* The records of one stream, numbered by their position, for the operations
\* ops; opted_out is the transaction's exclude_txn_from_change_streams.
BuildChangeStreamWriteOps(stream, ops, committed, opted_out) ==
    LET logged == SelectSeq(ops, LAMBDA op :
                     /\ op.table \in DOMAIN stream.tracks
                     /\ op.type \notin stream.exclude
                     /\ ~(opted_out /\ stream.allow_exclusion))
        Log(log, op) == LogTableMod(stream, log, op, committed)
    IN Close(FoldLeft(Log, [records |-> <<>>, group |-> NoGroup], logged)).records

(***************************************************************************)
(* What a reader of the stream does with the records: it applies each mod *)
(* to its own copy of the tracked columns.                                *)
(***************************************************************************)
Apply(record, copy, mod) ==
    LET t == record.table
    IN IF record.type = "delete"
       THEN [copy EXCEPT ![t] = [k \in DOMAIN @ \ {mod.key} |-> @[k]]]
       ELSE [copy EXCEPT ![t] = (mod.key :>
                (IF record.type = "insert" THEN mod.new
                 ELSE mod.new @@ @[mod.key])) @@ @]

ApplyRecord(copy, record) ==
    LET Step(c, mod) == Apply(record, c, mod)
    IN FoldLeft(Step, copy, record.mods)

Replay(copy, records) == FoldLeft(ApplyRecord, copy, records)

Tracked(stream, committed) ==
    [t \in DOMAIN stream.tracks |-> [k \in DOMAIN committed[t] |->
        [c \in stream.tracks[t] |-> committed[t][k][c]]]]
================================================================================
