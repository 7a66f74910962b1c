-------------------------------- MODULE Session --------------------------------
(******************************************************************************)
(* A session and the requests that use its transactions                       *)
(* (frontend/entities/session.cc, frontend/handlers).                         *)
(*                                                                            *)
(* A request finds its transaction under the session's mutex and works on it  *)
(* later, under the transaction's own mutex.  In between other requests       *)
(* begin, use and close transactions, so a request may hold a transaction     *)
(* that the session has closed.  A client may send requests at any time, in   *)
(* any order, and again.                                                      *)
(******************************************************************************)
EXTENDS FrontendTransaction

CONSTANTS
  Rpc,              \* requests being accepted at the same time
  MayMultiplex,     \* the values of Session::multiplexed_ to look at
  MaxTransactions,  \* limits::kMaxTransactionsPerSession
  MaxId,            \* bound: the number of transactions begun
  MaxAccepted       \* bound: the number of requests that find a transaction

Id == 1..MaxId

ASSUME SessionAssumption ==
  MaxTransactions \in Nat \ {0} /\ MaxId \in Nat /\ MayMultiplex \subseteq BOOLEAN

VARIABLES
  multiplexed, \* Session::multiplexed_
  txn,      \* the transaction objects, by id; None before they are created
  map,      \* ids in transaction_map_, or in the map of the mux manager
  minValid, \* Session::min_valid_id_
  active,   \* Session::active_transaction_, as an id
  held,     \* the transaction each running request has found
  begins,   \* whether the request has begun that transaction
  accepted, \* the number of requests that have found a transaction
  reply     \* the answer just given: to which operation on which transaction

sessionVars == <<map, minValid, active>>
vars        == <<multiplexed, txn, sessionVars, held, begins, accepted, reply>>

Created == {t \in Id : txn[t] # None}
NextId  == CHOOSE n \in 1..(MaxId + 1) : Created = 1..(n - 1)
NoReply == [op |-> "none", id |-> None, seqno |-> None, request |-> None, answer |-> "ok"]

--------------------------------------------------------------------------------
(* Session *)

\* The transactions T are closed, each with what its rollback comes to.
CloseAll(x, T) ==
  {y \in [Id -> UNION {Close(x[t]) : t \in T} \cup {x[t] : t \in Id}] :
     \A t \in Id : y[t] \in IF t \in T THEN Close(x[t]) ELSE {x[t]}}

Before(t) == {u \in map : u < t}

\* The oldest transactions of a map that has outgrown the limit.
Evicted(M) == {t \in M : Cardinality({u \in M : u > t}) >= MaxTransactions}

Dropped_Bug(t, activate) == Evicted(map \cup {t})

\* The transactions that creating t closes: those beyond the limit, and all
\* earlier ones when t becomes active at once.
Dropped(t, activate) == Evicted(map \cup {t}) \cup (IF activate THEN Before(t) ELSE {})

\* CreateMultiUseTransaction.  A multiplexed session registers the transaction
\* with the mux manager, which may forget closed and old ones (O) and closes
\* none of them.
CreateMultiUseTransaction(type, activate) ==
  LET t   == NextId
      new == [txn EXCEPT ![t] = NewTransaction(type)]
  IN  /\ t \in Id
      /\ IF multiplexed
           THEN /\ txn' = new
                /\ \E O \in SUBSET (map \cup {t}) : map' = (map \cup {t}) \ O
                /\ UNCHANGED <<minValid, active>>
           ELSE /\ txn' \in CloseAll(new, Dropped(t, activate))
                /\ map' = (map \cup {t}) \ Dropped(t, activate)
                /\ active' = IF activate THEN t ELSE active
                /\ UNCHANGED minValid

\* The request p has its transaction.
Accept(p, t, begun) ==
  /\ held[p] = None
  /\ accepted < MaxAccepted /\ accepted' = accepted + 1
  /\ held' = [held EXCEPT ![p] = t]
  /\ begins' = [begins EXCEPT ![p] = begun]

\* BeginTransaction: the whole request.
BeginTransaction(type) ==
  /\ CreateMultiUseTransaction(type, FALSE)
  /\ reply' = NoReply
  /\ UNCHANGED <<multiplexed, accepted, held, begins>>

\* A request whose selector begins a transaction.
InitTransaction(p, type) ==
  /\ CreateMultiUseTransaction(type, TRUE)
  /\ Accept(p, NextId, TRUE)
  /\ reply' = NoReply
  /\ UNCHANGED multiplexed

\* FindAndUseTransaction: transactions before the one used are closed.  An id
\* is remembered as the least valid one before it is looked up.
FindAndUseTransaction(p, t) ==
  /\ held[p] = None
  /\ ~multiplexed /\ t >= minValid
  /\ minValid' = t
  /\ IF t \in map /\ ~txn[t].closed
       THEN /\ active' = t
            /\ txn' \in CloseAll(txn, Before(t))
            /\ map' = map \ Before(t)
            /\ Accept(p, t, FALSE)
       ELSE UNCHANGED <<txn, map, active, held, begins, accepted>>
  /\ reply' = NoReply
  /\ UNCHANGED multiplexed

FindMultiplexedTransaction(p, t) ==
  /\ held[p] = None
  /\ multiplexed
  /\ t \in map
  /\ Accept(p, t, FALSE)
  /\ reply' = NoReply
  /\ UNCHANGED <<multiplexed, txn, sessionVars>>

--------------------------------------------------------------------------------
(* Requests *)

\* The handler of operation op returns one of the results; the transaction and
\* the answer are kept, and what a DML request was answered when it first came.
Answer(p, op, s, r, results) ==
  LET t == held[p]
  IN  /\ t # None
      /\ \E res \in GuardedCall(op, txn[t], results) :
           LET isNew   == s # None /\ txn[t].dml[s] = None /\ res.x.dml[s] # None
               success == op = "dml" /\ res.answer \in {"result", "batch"}
           IN  /\ txn' = [txn EXCEPT ![t] =
                            [res.x EXCEPT !.first = IF isNew THEN [@ EXCEPT ![s] = res.answer]
                                                    ELSE @,
                                          !.acked = IF success THEN @ \cup {s} ELSE @]]
               /\ reply' = [op |-> op, id |-> t, seqno |-> s, request |-> r,
                            answer |-> res.answer]
               /\ held' = [held EXCEPT ![p] = None]
               /\ begins' = [begins EXCEPT ![p] = FALSE]
               /\ UNCHANGED <<multiplexed, accepted, sessionVars>>

ServeSql(p, s, r) ==
  Answer(p, "dml", s, r, ExecuteSql(txn[held[p]], s, r, begins[p]))

ServeBatch(p, s, r) ==
  /\ held[p] # None
  /\ txn[held[p]].type = "rw"
  /\ Answer(p, "dml", s, r, ExecuteBatchDml(txn[held[p]], s, r, begins[p]))

ServeRead(p) ==
  Answer(p, "read", None, None, Read(txn[held[p]], begins[p]))

ServeCommit(p) ==
  /\ held[p] # None /\ ~begins[p]
  /\ \E mutations, token \in BOOLEAN :
       Answer(p, "commit", None, None, Commit(txn[held[p]], mutations, multiplexed /\ ~token))

ServeRollback(p) ==
  /\ held[p] # None /\ ~begins[p]
  /\ Answer(p, "rollback", None, None, Rollback(txn[held[p]]))

--------------------------------------------------------------------------------
(* Specification *)

SessionInit ==
  /\ multiplexed \in MayMultiplex
  /\ txn = [t \in Id |-> None]
  /\ map = {}
  /\ minValid = 1
  /\ active = None
  /\ held = [p \in Rpc |-> None]
  /\ begins = [p \in Rpc |-> FALSE]
  /\ accepted = 0
  /\ reply = NoReply

Serve(p) ==
  \/ \E s \in Seqno, r \in Statements : ServeSql(p, s, r)
  \/ \E s \in Seqno, r \in Batches : ServeBatch(p, s, r)
  \/ ServeRead(p)
  \/ ServeCommit(p)
  \/ ServeRollback(p)

SessionNext ==
  \/ \E type \in {"rw", "pdml"} : BeginTransaction(type)
  \/ \E p \in Rpc :
       \/ \E type \in {"rw", "pdml"} : InitTransaction(p, type)
       \/ \E t \in Id : FindAndUseTransaction(p, t) \/ FindMultiplexedTransaction(p, t)
       \/ Serve(p)

SessionSpec == SessionInit /\ [][SessionNext]_vars

--------------------------------------------------------------------------------
(* Properties *)

\* What the class comment on Session says: once a transaction is used, those
\* begun before it are invalid, whichever requests began and found them.
PredecessorsAreClosed ==
  active # None => \A t \in Created : t < active => txn[t].closed

\* A transaction that its session has closed does not commit, although requests
\* that found it before may still be running (Transaction::Close).
ClosedNeverCommits ==
  [][\A t \in Created : txn[t].closed => txn'[t].written = txn[t].written]_vars

\* What commits contains every DML statement that was answered with success in
\* the transaction, and not only those since its last reset (status_ in
\* GuardedCall, Close).
AcknowledgedDmlIsCommitted ==
  \A t \in Created : txn[t].written # None => txn[t].acked \subseteq txn[t].written

\* The DML statements of a transaction run in the order of their sequence
\* numbers and each at most once, however often and in which order the requests
\* arrive (LookupOrRegisterDmlRequest).
DmlRunsInOrder ==
  \A t \in Created : \A i, j \in 1..Len(txn[t].ran) : i < j => txn[t].ran[i] < txn[t].ran[j]

\* An ExecuteSql or ExecuteStreamingSql that is sent again in the same
\* transaction is answered as it was the first time (RequestReplayState).
ReplaysAgree ==
  LET x == txn[reply.id]
  IN  reply.op = "dml" /\ reply.request \in Statements /\ x.dml[reply.seqno] # None =>
        x.dml[reply.seqno].request # reply.request \/ x.first[reply.seqno] = reply.answer

\* No client is told to retry a transaction that has committed.
CommittedIsNotRetried ==
  reply.answer = "aborted" => txn[reply.id].written = None
================================================================================
