-------------------------- MODULE FrontendTransaction --------------------------
(******************************************************************************)
(* A transaction as the frontend keeps it (frontend/entities/transaction.cc)  *)
(* and the handlers that work on it: ExecuteSql, ExecuteStreamingSql,         *)
(* ExecuteBatchDml, Read, Commit, Rollback and Close.                         *)
(*                                                                            *)
(* GuardedCall holds the transaction's mutex for a whole request, so what a   *)
(* request does is a function of the transaction's record x.  The backend     *)
(* may answer in several ways (a conflict, a constraint error, a schema       *)
(* change in the meantime), so each handler is an operator that gives the set *)
(* of its results: the record it leaves and the answer the client receives.   *)
(*                                                                            *)
(* A definition whose name ends in _Bug is a mutation of the definition that  *)
(* follows it; no specification uses it.                                      *)
(******************************************************************************)
EXTENDS Integers, Sequences, FiniteSets

CONSTANTS
  Statements,     \* ExecuteSqlRequests with a DML statement, without their seqno
  Batches,        \* ExecuteBatchDmlRequests, without their seqno
  Boosted,        \* the statements sent with data_boost_enabled and no token
  MaxSeqno,       \* bound: the highest sequence number a client uses
  SchemaChanges,  \* whether schema changes commit while transactions run
  None            \* no request, no transaction, not committed

Seqno    == 1..MaxSeqno
Mutation == 0                       \* the mutations of a Commit, among the writes
Writes   == Seqno \cup {Mutation}
Requests == Statements \cup Batches

ASSUME RequestsAssumption ==
  /\ Statements \cap Batches = {} /\ Boosted \subseteq Statements
  /\ None \notin Requests \cup Seqno
  /\ MaxSeqno \in Nat /\ SchemaChanges \in BOOLEAN

\* type is type_, backend the state_ of the backend transaction with the writes
\* it has buffered, status status_, closed closed_, dml dml_requests_, current
\* current_dml_seqno_ and mode dml_error_mode_.  History: written, what was
\* committed; acked, the sequence numbers answered with success; ran, those
\* whose statements ran; first, the answer to each request when it first came.
NewTransaction(type) ==
  [type |-> type, backend |-> "uninitialized", buffered |-> {}, status |-> "ok",
   closed |-> FALSE, dml |-> [s \in Seqno |-> None], current |-> None,
   mode |-> "request", written |-> None, acked |-> {}, ran |-> <<>>,
   first |-> [s \in Seqno |-> None]]

OkAnswers  == {"ok", "result", "batch", "partial", "timestamp", "token"}
Result(x, answer) == [x |-> x, answer |-> answer]
IsError(a) == a \notin OkAnswers

Errors == {"failed", "constraint", "aborted", "invalid", "finished", "cannot", "mismatch",
           "out of order", "data boost"}

\* RequestReplayState
DmlEntry == [request : Requests, status : {"ok"} \cup Errors,
             outcome : {"empty", "result", "batch", "partial"}]

Transaction ==
  [type : {"rw", "pdml"},
   backend : {"uninitialized", "active", "committed", "rolledback", "invalid"},
   buffered : SUBSET Writes, status : {"ok"} \cup Errors,
   closed : BOOLEAN, dml : [Seqno -> DmlEntry \cup {None}], current : Seqno \cup {None},
   mode : {"request", "replay", "error"},
   written : (SUBSET Writes) \cup {None}, acked : SUBSET Seqno,
   ran : Seq(Seqno), first : [Seqno -> OkAnswers \cup Errors \cup {None}]]

ASSUME NoneAssumption == None \notin DmlEntry \cup Transaction

--------------------------------------------------------------------------------
(* The backend transaction *)

Finished(x) == x.backend \in {"committed", "rolledback"}
Usable(x)   == x.backend \in {"uninitialized", "active"}

\* An abort resets the backend transaction; it does not invalidate it.
BackendReset(x) == [x EXCEPT !.backend = "uninitialized", !.buffered = {}]

BackendActive(x, W) == [x EXCEPT !.backend = "active", !.buffered = @ \cup W]

BackendCommitted(x) == [x EXCEPT !.backend = "committed", !.written = x.buffered]

\* A call that a schema change may abort: Rollback and Invalidate go through the
\* backend's GuardedCall like everything else.
MayAbort(x) == IF SchemaChanges /\ Usable(x) THEN {BackendReset(x)} ELSE {}

BackendRollback(x) ==
  IF Finished(x) THEN {Result(x, "failed")}
  ELSE {Result([x EXCEPT !.backend = "rolledback", !.buffered = {}], "ok")}
         \cup {Result(y, "aborted") : y \in MayAbort(x)}

Invalidate(x) ==
  IF x.type # "rw" \/ ~Usable(x) THEN {x}
  ELSE {[x EXCEPT !.backend = "invalid", !.buffered = {}]} \cup MayAbort(x)

\* Rollback of the frontend transaction.
RollbackCall(x) == IF x.type = "rw" THEN BackendRollback(x) ELSE {Result(x, "cannot")}

Close_Bug(x) == {[x EXCEPT !.closed = TRUE]}

\* Close: whatever the rollback answers is ignored.
Close(x) == {[r.x EXCEPT !.closed = TRUE] : r \in BackendRollback(x)}

--------------------------------------------------------------------------------
(* GuardedCall *)

\* The status kept of an error; its payload, which marks constraint errors, is
\* dropped.
Kept(answer) == IF answer = "constraint" THEN "failed" ELSE answer

Poisons_Bug(op, answer) ==
  IsError(answer) /\ (op = "commit" \/ answer = "constraint")

\* The errors after which the transaction is of no use any more.
Poisons(op, answer) ==
  IsError(answer) /\ (op = "commit" \/ answer \in {"constraint", "aborted"})

SetReplayStatus_Bug(x, answer) ==
  IF x.current = None \/ x.dml[x.current] = None THEN x
  ELSE [x EXCEPT !.dml[x.current].status = answer]

\* SetDmlRequestReplayStatus
SetReplayStatus(x, answer) ==
  IF x.mode # "request" \/ x.current = None \/ x.dml[x.current] = None THEN x
  ELSE [x EXCEPT !.dml[x.current].status = answer]

\* What GuardedCall does once the handler has the result r.
AfterCall(op, r) ==
  LET invalidated == IF Poisons(op, r.answer)
                       THEN Invalidate([r.x EXCEPT !.status = Kept(r.answer)])
                       ELSE {r.x}
      recorded(x) == IF op = "dml" /\ IsError(r.answer)
                       THEN SetReplayStatus(x, r.answer) ELSE x
      ended(x)    == IF op = "rollback" THEN [x EXCEPT !.status = Kept(r.answer)] ELSE x
  IN  {Result(ended(recorded(x)), r.answer) : x \in invalidated}

\* A transaction that met an error answers with it; a DML request looks for its
\* replay first, and a rollback goes on.
GuardedCall(op, x, results) ==
  IF op \notin {"dml", "rollback"} /\ x.status # "ok" THEN {Result(x, x.status)}
  ELSE UNION {AfterCall(op, r) : r \in results}

--------------------------------------------------------------------------------
(* DML requests and their replays *)

Registered(x) == {s \in Seqno : x.dml[s] # None}

Entry(r, status, outcome) == [request |-> r, status |-> status, outcome |-> outcome]

Lookup_Bug(x, s, r) ==
  LET known == x.dml[s]
      y     == [x EXCEPT !.current = s]
  IN  CASE known = None -> [x |-> [y EXCEPT !.mode = "request",
                                            !.dml[s] = Entry(r, "ok", "empty")],
                            state |-> None]
        [] known # None /\ known.request # r ->
             [x |-> [y EXCEPT !.mode = "error"], state |-> Entry(r, "mismatch", "empty")]
        [] OTHER -> [x |-> [y EXCEPT !.mode = "replay"], state |-> known]

\* LookupOrRegisterDmlRequest: a new number is registered unless it is out of
\* order, a known one must come with the same request.
Lookup(x, s, r) ==
  LET known == x.dml[s]
      y     == [x EXCEPT !.current = s]
  IN  CASE known = None /\ (\E u \in Registered(x) : u > s) ->
             [x |-> [y EXCEPT !.mode = "error"], state |-> Entry(r, "out of order", "empty")]
        [] known = None /\ (\A u \in Registered(x) : u <= s) ->
             [x |-> [y EXCEPT !.mode = "request", !.dml[s] = Entry(r, "ok", "empty")],
              state |-> None]
        [] known # None /\ known.request # r ->
             [x |-> [y EXCEPT !.mode = "error"], state |-> Entry(r, "mismatch", "empty")]
        [] OTHER -> [x |-> [y EXCEPT !.mode = "replay"], state |-> known]

\* SetDmlReplayOutcome
SetOutcome(x, outcome) ==
  IF x.backend = "invalid" THEN x ELSE [x EXCEPT !.dml[x.current].outcome = outcome]

\* The checks between the registration and the statement.
Refusal(x) ==
  IF x.status # "ok" THEN x.status
  ELSE CASE x.backend = "invalid" -> "invalid"
         [] Finished(x)           -> "finished"
         [] OTHER                 -> "ok"

Runs(x, s) == [x EXCEPT !.ran = Append(@, s)]

\* The statement fails before it touches data, after it has read, with a
\* constraint error, or is aborted.
StatementFails(x) ==
  {Result(x, "failed"), Result(BackendActive(x, {}), "failed"),
   Result(BackendReset(x), "constraint"), Result(BackendReset(x), "aborted")}

\* Transaction::ExecuteSql.  A partitioned DML statement commits at once, and
\* any error of it counts as a constraint error.
ExecuteStatement(x, s) ==
  IF x.type = "rw"
    THEN {Result(BackendActive(Runs(x, s), {s}), "result")} \cup StatementFails(x)
    ELSE {Result(BackendCommitted(BackendActive(Runs(x, s), {s})), "result")}
           \cup {Result(r.x, IF r.answer = "aborted" THEN "aborted" ELSE "constraint")
                   : r \in StatementFails(x)}

\* A transaction begun by a request that fails is rolled back.
RolledBackIf(begins, r) ==
  IF begins THEN {Result(y.x, r.answer) : y \in RollbackCall(r.x)} ELSE {r}

\* After the statement the response is put together, which can fail too.
SqlResult(r, begins) ==
  IF IsError(r.answer) THEN RolledBackIf(begins, r)
  ELSE {Result(SetOutcome(r.x, "result"), "result"), Result(r.x, "failed")}

SqlReplay(state) ==
  CASE state.status # "ok"                    -> state.status
    [] state.status = "ok" /\ state.outcome \in {"result", "empty"} -> "result"
    [] OTHER                                  -> "mismatch"

\* ExecuteSql and ExecuteStreamingSql with a DML statement.
ExecuteSql(x, s, r, begins) ==
  LET found == Lookup(x, s, r)
  IN  CASE r \in Boosted -> {Result(x, "data boost")}
        [] r \notin Boosted /\ found.state # None ->
             {Result(found.x, SqlReplay(found.state))}
        [] r \notin Boosted /\ found.state = None /\ Refusal(found.x) # "ok" ->
             {Result(found.x, Refusal(found.x))}
        [] OTHER ->
             UNION {SqlResult(e, begins) : e \in ExecuteStatement(found.x, s)}

\* A batch whose statement fails with a constraint error: MaybeInvalidate.
MaybeInvalidate(x) == Invalidate([x EXCEPT !.status = "failed"])

\* A statement of the batch fails: the error is part of the response, and the
\* statements before it have run.  Only a failure of the first statement rolls a
\* transaction back that the request began.
BatchFails(x, s, begins) ==
  LET failed(y) == Result(SetOutcome(y, "partial"), "partial")
      invalid   == MaybeInvalidate(failed(BackendReset(x)).x)
  IN  {failed(BackendActive(Runs(x, s), {s}))}
        \cup RolledBackIf(begins, failed(x))
        \cup UNION {RolledBackIf(b /\ y.backend # "invalid", Result(y, "partial"))
                      : y \in invalid, b \in {begins, FALSE}}

BatchReplay(x, state) ==
  CASE x.mode = "error"                                            -> state.status
    [] x.mode # "error" /\ state.outcome \in {"result", "empty"} -> "mismatch"
    [] OTHER                                                       -> state.outcome

\* ExecuteBatchDml; partitioned DML is refused before the call.
ExecuteBatchDml(x, s, r, begins) ==
  LET found == Lookup(x, s, r)
  IN  CASE found.state # None -> {Result(found.x, BatchReplay(found.x, found.state))}
        [] found.state = None /\ Refusal(found.x) # "ok" ->
             {Result(found.x, Refusal(found.x))}
        [] OTHER ->
             {Result(SetOutcome(BackendActive(Runs(found.x, s), {s}), "batch"), "batch"),
              Result(BackendReset(found.x), "aborted")}
               \cup BatchFails(found.x, s, begins)

--------------------------------------------------------------------------------
(* Reads, commits and rollbacks *)

\* Read, StreamingRead and queries.
Read(x, begins) ==
  CASE Refusal(x) # "ok" -> {Result(x, Refusal(x))}
    [] Refusal(x) = "ok" /\ x.type # "rw" -> RolledBackIf(begins, Result(x, "cannot"))
    [] OTHER -> {Result(BackendActive(x, {}), "result")}
                  \cup UNION {RolledBackIf(begins, r) :
                                r \in {e \in StatementFails(x) : e.answer # "constraint"}}

CommitWritten_Bug(x, needsToken) ==
  IF needsToken THEN {Result(x, "token")}
  ELSE {Result(BackendCommitted(x), "timestamp"),
        Result(BackendCommitted(x), "aborted"), Result(BackendReset(x), "constraint")}

\* The writes are in: commit, or ask for the token of a multiplexed session.
CommitWritten(x, needsToken) ==
  IF needsToken THEN {Result(x, "token")}
  ELSE {Result(BackendCommitted(x), "timestamp"),
        Result(BackendReset(x), "aborted"), Result(BackendReset(x), "constraint")}

\* Commit, with or without mutations; needsToken if the session is multiplexed and
\* the request has no precommit token.
Commit(x, mutations, needsToken) ==
  CASE x.backend = "invalid"    -> {Result(x, "invalid")}
    [] x.backend = "rolledback" -> {Result(x, "finished")}
    [] x.backend = "committed"  -> {Result(x, IF x.type = "rw" THEN "timestamp" ELSE "cannot")}
    [] Usable(x) /\ x.type # "rw" -> {Result(x, "failed"), Result(x, "cannot")}
    [] OTHER ->
         StatementFails(x)
           \cup CommitWritten(BackendActive(x, IF mutations THEN {Mutation} ELSE {}), needsToken)

Rollback(x) ==
  CASE x.backend = "committed"  -> {Result(x, "finished")}
    [] x.backend = "rolledback" -> {Result(x, "ok")}
    [] OTHER                    -> RollbackCall(x)
================================================================================
