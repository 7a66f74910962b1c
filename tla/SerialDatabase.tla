----------------------------- MODULE SerialDatabase -----------------------------
(******************************************************************************)
(* What the commit protocol promises its clients: a database that runs one    *)
(* transaction at a time.  A transaction reads and writes the current rows in *)
(* one step, and the timestamps of successive transactions increase.          *)
(******************************************************************************)
EXTENDS Integers

CONSTANTS Client, Key, Value, Time, None, Touch,
          InitialDb   \* the rows the database starts with

VARIABLES
  db,      \* the current rows
  lastTs,  \* the timestamp of the last transaction
  result   \* what each client's transaction read and wrote, and when

sdVars == <<db, lastTs, result>>

SerialInit ==
  /\ db = InitialDb
  /\ lastTs = 0
  /\ result = [c \in Client |-> None]

Result == [ts : Time, reads : [Key -> Value \cup {None}],
           writes : [Key -> Value \cup {None, Touch}]]

\* Client c's transaction runs with the reads and writes that its result r
\* names.  A write of None leaves the row alone, Touch rewrites what is there.
Transact(c, r) ==
  /\ result[c] = None
  /\ r.ts > lastTs
  /\ \A k \in Key : r.reads[k] \in {None, db[k]}
  /\ db' = [k \in Key |-> IF r.writes[k] \in {None, Touch} THEN db[k] ELSE r.writes[k]]
  /\ lastTs' = r.ts
  /\ result' = [result EXCEPT ![c] = r]

SerialNext == \E c \in Client : result'[c] \in Result /\ Transact(c, result'[c])

SerialSpec == SerialInit /\ [][SerialNext]_sdVars
================================================================================
