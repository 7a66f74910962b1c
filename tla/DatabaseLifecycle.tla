--------------------------- MODULE DatabaseLifecycle ---------------------------
(******************************************************************************)
(* What the frontend keeps for a database and what a drop of it takes away:   *)
(* DatabaseManager, SessionManager with its ephemeral sessions,               *)
(* MultiplexedSessionTransactionManager and OperationManager                  *)
(* (frontend/collections), and the handlers that use them.                    *)
(*                                                                            *)
(* A database object may be dropped, and another one created under its URI,   *)
(* while requests that found the first one are running.  Each manager has its *)
(* own mutex; an action is one region under one of them, or one step of an    *)
(* object's destruction.  Requests that change nothing have no action.        *)
(*                                                                            *)
(* A definition whose name ends in _Bug is a mutation of the definition that  *)
(* follows it; no specification uses it.                                      *)
(******************************************************************************)
EXTENDS Integers, FiniteSets, FiniteSetsExt

CONSTANTS
  Db,            \* database objects
  Uri,           \* the URIs of databases of one instance
  Rpc,           \* requests being served at the same time
  OpId,          \* operation ids supplied by clients
  MaxDatabases,  \* limits::kMaxDatabasesPerInstance
  MaxCopies,     \* config::max_ephemeral_sessions()
  MaxSid,        \* bound: the number of sessions created
  MaxBatch,      \* bound: the sessions of one BatchCreateSessions
  MaxTxnId,      \* bound: the highest transaction id
  SetBack,       \* whether the system clock may be set back
  None,          \* no database, no session
  Generated      \* the generated operation ids, which never collide

Sid   == 1..MaxSid
TxnId == 1..MaxTxnId
Kinds == {"ordinary", "multiplexed", "ephemeral"}

ASSUME LifecycleAssumption ==
  /\ None \notin Db \cup Uri \cup OpId \cup Nat \cup Kinds /\ Generated \notin OpId
  /\ {MaxDatabases, MaxCopies, MaxSid, MaxBatch, MaxTxnId} \subseteq Nat
  /\ SetBack \in BOOLEAN

VARIABLES
  registered,  \* DatabaseManager::database_map_
  count,       \* DatabaseManager::num_databases_per_instance_
  uri,         \* Database::database_uri_; None before the object is created
  dropped,     \* the databases with Database::dropped_
  finished,    \* history: the databases whose drop has returned
  session,     \* the sessions: their database (for an ephemeral one, the one it
               \* is a copy of), kind, whether they have expired by idling, and
               \* how far they are destroyed
  inMap,       \* SessionManager::session_map_
  returned,    \* history: sessions that a client has been told of
  used,        \* EphemeralCapacity::used
  sweeper,     \* the expired sessions of a running sweep, as its time has it
  nextTxn,     \* transaction_id_generator_ of each database; 0 before it is created
  mux,         \* current_transactions_: the database of each URI and id
  begun,       \* history: transactions of multiplexed sessions to be found
  operations,  \* OperationManager::operations_map_
  rpc          \* the running requests

dbVars      == <<registered, count, uri, dropped, finished>>
sessionVars == <<session, inMap, returned, used, sweeper>>
muxVars     == <<nextTxn, mux, begun>>
vars        == <<dbVars, sessionVars, muxVars, operations, rpc>>

Idle      == [pc |-> "idle", db |-> None, uri |-> None, op |-> None, kind |-> None,
              want |-> 0, made |-> {}, sid |-> None]
NoSession == [db |-> None, kind |-> None, stale |-> FALSE, life |-> "new"]

Go(p, r)     == rpc' = [rpc EXCEPT ![p] = r]
Goto(p, to)  == Go(p, [rpc[p] EXCEPT !.pc = to])
At(p, pc)    == rpc[p].pc = pc
DatabaseDropped(s) == session[s].db \in dropped

--------------------------------------------------------------------------------
(* Databases and their operations *)

FirstId_Bug(now) == 1

\* Database::Database: the first id is the system time in microseconds.
FirstId(now) == now

\* The system time, which is past every id drawn before unless it is set back: no
\* database draws an id a microsecond.
SystemTime(now) == SetBack \/ \A d \in Db : nextTxn[d] <= now

\* CreateDatabase: the database is made outside of the mutex, and recorded if
\* the URI is free and the quota not used up.
CreateDatabase(p, u, d) ==
  /\ At(p, "idle")
  /\ uri[d] = None /\ registered[u] = None
  /\ count < MaxDatabases
  /\ uri' = [uri EXCEPT ![d] = u]
  /\ registered' = [registered EXCEPT ![u] = d]
  /\ count' = count + 1
  /\ \E now \in TxnId :
       SystemTime(now) /\ nextTxn' = [nextTxn EXCEPT ![d] = FirstId(now)]
  /\ Go(p, [Idle EXCEPT !.pc = "create operation", !.db = d, !.op = Generated])
  /\ UNCHANGED <<dropped, finished, sessionVars, mux, begun, operations>>

OperationExists(u, id) == \E o \in operations : o.uri = u /\ o.id = id

\* UpdateDatabaseDdl: the check for a replay, ...
UpdateDatabaseDdl(p, u, id) ==
  /\ At(p, "idle")
  /\ id = Generated \/ ~OperationExists(u, id)
  /\ Go(p, [Idle EXCEPT !.pc = "update schema", !.uri = u, !.op = id])
  /\ UNCHANGED <<dbVars, sessionVars, muxVars, operations>>

\* ... the database and its schema change, which fails or not, ...
UpdateSchema(p) ==
  /\ At(p, "update schema")
  /\ LET d == registered[rpc[p].uri]
     IN  \/ d # None /\ Go(p, [rpc[p] EXCEPT !.pc = "create operation", !.db = d])
         \/ Go(p, Idle)
  /\ UNCHANGED <<dbVars, sessionVars, muxVars, operations>>

CreateDatabaseOperation_Bug(p) ==
  /\ At(p, "create operation")
  /\ operations' = operations \cup {[uri |-> uri[rpc[p].db], id |-> rpc[p].op, db |-> rpc[p].db]}
  /\ Go(p, Idle)
  /\ UNCHANGED <<dbVars, sessionVars, muxVars>>

\* ... and CreateDatabaseOperation, which refuses a dropped database and an id
\* that is taken.
CreateDatabaseOperation(p) ==
  /\ At(p, "create operation")
  /\ LET d  == rpc[p].db
         id == rpc[p].op
     IN  operations' = IF d \in dropped \/ (id # Generated /\ OperationExists(uri[d], id))
                         THEN operations
                         ELSE operations \cup {[uri |-> uri[d], id |-> id, db |-> d]}
  /\ Go(p, Idle)
  /\ UNCHANGED <<dbVars, sessionVars, muxVars>>

DeleteOperation(o) ==
  /\ operations' = operations \ {o}
  /\ UNCHANGED <<dbVars, sessionVars, muxVars, rpc>>

ReleaseDatabase_Bug(p, u) ==
  /\ At(p, "idle")
  /\ registered[u] # None
  /\ registered' = [registered EXCEPT ![u] = None]
  /\ dropped' = dropped \cup {registered[u]}
  /\ Go(p, [Idle EXCEPT !.pc = "drop sessions", !.db = registered[u]])
  /\ UNCHANGED <<uri, count, finished, sessionVars, muxVars, operations>>

\* DropDatabase: ReleaseDatabase, and the three sweeps that follow it.
ReleaseDatabase(p, u) ==
  /\ At(p, "idle")
  /\ registered[u] # None
  /\ registered' = [registered EXCEPT ![u] = None]
  /\ count' = count - 1
  /\ dropped' = dropped \cup {registered[u]}
  /\ Go(p, [Idle EXCEPT !.pc = "drop sessions", !.db = registered[u]])
  /\ UNCHANGED <<uri, finished, sessionVars, muxVars, operations>>

DeleteDatabaseSessions_Bug(p) ==
  /\ At(p, "drop sessions")
  /\ inMap' = {s \in inMap : uri[session[s].db] # uri[rpc[p].db]}
  /\ Goto(p, "drop transactions")
  /\ UNCHANGED <<dbVars, session, returned, used, sweeper, muxVars, operations>>

DeleteDatabaseSessions(p) ==
  /\ At(p, "drop sessions")
  /\ inMap' = {s \in inMap : session[s].db # rpc[p].db}
  /\ Goto(p, "drop transactions")
  /\ UNCHANGED <<dbVars, session, returned, used, sweeper, muxVars, operations>>

RemoveDatabaseTransactions(p) ==
  /\ At(p, "drop transactions")
  /\ mux' = [e \in DOMAIN mux |-> IF mux[e] = rpc[p].db THEN None ELSE mux[e]]
  /\ Goto(p, "drop operations")
  /\ UNCHANGED <<dbVars, sessionVars, nextTxn, begun, operations>>

DeleteDatabaseOperations(p) ==
  /\ At(p, "drop operations")
  /\ operations' = {o \in operations : o.db # rpc[p].db}
  /\ finished' = finished \cup {rpc[p].db}
  /\ Go(p, Idle)
  /\ UNCHANGED <<registered, count, uri, dropped, sessionVars, muxVars>>

--------------------------------------------------------------------------------
(* Sessions *)

NewSid == Cardinality({s \in Sid : session[s].life # "new"}) + 1

\* The bound MaxSid leaves room for a request for n more sessions.
HasRoom(n) == NewSid - 1 + n + MapThenSumSet(LAMBDA p : rpc[p].want, Rpc) <= MaxSid

\* CreateSession and BatchCreateSessions find the database first.
CreateSessions(p, u, kind, n) ==
  /\ At(p, "idle")
  /\ registered[u] # None
  /\ kind = "multiplexed" => n = 1
  /\ HasRoom(n)
  /\ Go(p, [Idle EXCEPT !.pc = "new session", !.db = registered[u], !.kind = kind,
                        !.want = n])
  /\ UNCHANGED <<dbVars, sessionVars, muxVars, operations>>

\* A session enters the map; after the last one the request returns them all.
\* (CreateSessions has kept room for it: s is within the bound.)
Publish(p) ==
  LET s   == NewSid
      all == rpc[p].made \cup {s}
  IN  /\ s \in Sid
      /\ session' = [session EXCEPT ![s] = [db |-> rpc[p].db, kind |-> rpc[p].kind,
                                            stale |-> FALSE, life |-> "alive"]]
      /\ inMap' = inMap \cup {s}
      /\ IF rpc[p].want = 1
           THEN Go(p, Idle) /\ returned' = returned \cup all
           ELSE /\ Go(p, [rpc[p] EXCEPT !.pc = "new session", !.want = @ - 1, !.made = all])
                /\ UNCHANGED returned

\* No session can be created: those made before are deleted.
Fail(p) == Go(p, IF rpc[p].made = {} THEN Idle ELSE [rpc[p] EXCEPT !.pc = "cleanup"])

CreateSession(p) ==
  /\ At(p, "new session") /\ rpc[p].kind # "ephemeral"
  /\ IF rpc[p].db \in dropped
       THEN Fail(p) /\ UNCHANGED <<session, inMap, returned>>
       ELSE Publish(p)
  /\ UNCHANGED <<dbVars, used, sweeper, muxVars, operations>>

Reserve_Bug(p) ==
  /\ At(p, "new session") /\ rpc[p].kind = "ephemeral"
  /\ IF rpc[p].db \in dropped \/ used > MaxCopies
       THEN Fail(p) /\ UNCHANGED used
       ELSE used' = used + 1 /\ Goto(p, "copying")
  /\ UNCHANGED <<dbVars, session, inMap, returned, sweeper, muxVars, operations>>

\* CreateEphemeralSession: a place is taken before the copy is made, ...
Reserve(p) ==
  /\ At(p, "new session") /\ rpc[p].kind = "ephemeral"
  /\ IF rpc[p].db \in dropped \/ used >= MaxCopies
       THEN Fail(p) /\ UNCHANGED used
       ELSE used' = used + 1 /\ Goto(p, "copying")
  /\ UNCHANGED <<dbVars, session, inMap, returned, sweeper, muxVars, operations>>

\* ... the copy becomes a session unless it failed or the database is dropped,
\* ...
FinishCopy(p) ==
  /\ At(p, "copying")
  /\ \/ rpc[p].db \notin dropped /\ Publish(p)
     \/ Goto(p, "release") /\ UNCHANGED <<session, inMap, returned>>
  /\ UNCHANGED <<dbVars, used, sweeper, muxVars, operations>>

\* ... and then the place is given back once the copy is gone.
UndoCopy(p) ==
  /\ At(p, "release")
  /\ used' = used - 1
  /\ Fail(p)
  /\ UNCHANGED <<dbVars, session, inMap, returned, sweeper, muxVars, operations>>

Cleanup_Bug(p) ==
  /\ At(p, "cleanup")
  /\ Go(p, Idle)
  /\ UNCHANGED <<dbVars, sessionVars, muxVars, operations>>

\* BatchCreateSessions deletes what it has made before it returns an error.
Cleanup(p) ==
  /\ At(p, "cleanup")
  /\ \E s \in rpc[p].made :
       /\ inMap' = inMap \ {s}
       /\ Go(p, IF rpc[p].made = {s} THEN Idle ELSE [rpc[p] EXCEPT !.made = @ \ {s}])
  /\ UNCHANGED <<dbVars, session, returned, used, sweeper, muxVars, operations>>

\* GetSession: an expired session is deleted, others are in use from now on.
GetSession(p, s) ==
  /\ At(p, "idle")
  /\ s \in inMap /\ registered[uri[session[s].db]] # None
  /\ ~DatabaseDropped(s)
  /\ IF session[s].stale
       THEN inMap' = inMap \ {s} /\ UNCHANGED rpc
       ELSE Go(p, [Idle EXCEPT !.pc = "using", !.sid = s]) /\ UNCHANGED inMap
  /\ UNCHANGED <<dbVars, session, returned, used, sweeper, muxVars, operations>>

\* The request that uses a session is done with it.
EndRequest(p) ==
  /\ At(p, "using")
  /\ Go(p, Idle)
  /\ UNCHANGED <<dbVars, sessionVars, muxVars, operations>>

DeleteSession(s) ==
  /\ s \in inMap /\ session[s].kind # "multiplexed"
  /\ inMap' = inMap \ {s}
  /\ UNCHANGED <<dbVars, session, returned, used, sweeper, muxVars, operations, rpc>>

\* A session has not been used for as long as its kind allows.
Expire(s) ==
  /\ s \in inMap /\ ~session[s].stale
  /\ session' = [session EXCEPT ![s].stale = TRUE]
  /\ UNCHANGED <<dbVars, inMap, returned, used, sweeper, muxVars, operations, rpc>>

\* SweepEphemeralSessions: the time is taken before the mutex.
StartSweep ==
  /\ sweeper = None /\ used > 0
  /\ sweeper' = {s \in inMap : session[s].stale}
  /\ UNCHANGED <<dbVars, session, inMap, returned, used, muxVars, operations, rpc>>

FinishSweep_Bug ==
  /\ sweeper # None
  /\ inMap' = {s \in inMap : ~(session[s].kind = "ephemeral" /\ DatabaseDropped(s))}
  /\ sweeper' = None
  /\ UNCHANGED <<dbVars, session, returned, used, muxVars, operations, rpc>>

FinishSweep ==
  /\ sweeper # None
  /\ inMap' = {s \in inMap : ~(session[s].kind = "ephemeral"
                               /\ (DatabaseDropped(s) \/ s \in sweeper))}
  /\ sweeper' = None
  /\ UNCHANGED <<dbVars, session, returned, used, muxVars, operations, rpc>>

Held(s) == s \in inMap \/ \E p \in Rpc : rpc[p].sid = s \/ s \in rpc[p].made

\* The last reference to an ephemeral session is gone: its members are destroyed
\* in the reverse order of their declaration, the copy first ...
DestroyCopy(s) ==
  /\ session[s].kind = "ephemeral" /\ session[s].life = "alive" /\ ~Held(s)
  /\ session' = [session EXCEPT ![s].life = "copy gone"]
  /\ UNCHANGED <<dbVars, inMap, returned, used, sweeper, muxVars, operations, rpc>>

\* ... and its place afterwards.
ReleaseReservation(s) ==
  /\ session[s].life = "copy gone"
  /\ session' = [session EXCEPT ![s].life = "gone"]
  /\ used' = used - 1
  /\ UNCHANGED <<dbVars, inMap, returned, sweeper, muxVars, operations, rpc>>

--------------------------------------------------------------------------------
(* Transactions of multiplexed sessions *)

\* A transaction is begun: its id is new in its database, and it joins the map
\* under the URI and the id unless there is an entry already (emplace).
AddToCurrentTransactions(p) ==
  LET d == session[rpc[p].sid].db
      t == nextTxn[d]
  IN  /\ At(p, "using") /\ session[rpc[p].sid].kind = "multiplexed"
      /\ t \in TxnId
      /\ nextTxn' = [nextTxn EXCEPT ![d] = t + 1]
      /\ IF d \in dropped THEN UNCHANGED <<mux, begun>>
         ELSE /\ mux' = IF mux[<<uri[d], t>>] # None THEN mux
                        ELSE [mux EXCEPT ![<<uri[d], t>>] = d]
              /\ begun' = begun \cup {<<d, t>>}
      /\ Go(p, Idle)
      /\ UNCHANGED <<dbVars, sessionVars, operations>>

\* ClearOldTransactions forgets transactions begun long ago.
ClearOldTransactions(u, t) ==
  /\ mux[<<u, t>>] # None
  /\ mux' = [mux EXCEPT ![<<u, t>>] = None]
  /\ begun' = begun \ {<<mux[<<u, t>>], t>>}
  /\ UNCHANGED <<dbVars, sessionVars, nextTxn, operations, rpc>>

--------------------------------------------------------------------------------
(* Specification *)

Init ==
  /\ registered = [u \in Uri |-> None]
  /\ count = 0
  /\ uri = [d \in Db |-> None]
  /\ dropped = {}
  /\ finished = {}
  /\ session = [s \in Sid |-> NoSession]
  /\ inMap = {}
  /\ returned = {}
  /\ used = 0
  /\ sweeper = None
  /\ nextTxn = [d \in Db |-> 0]
  /\ mux = [e \in Uri \X TxnId |-> None]
  /\ begun = {}
  /\ operations = {}
  /\ rpc = [p \in Rpc |-> Idle]

Request(p) ==
  \/ \E u \in Uri :
       \/ \E d \in Db : CreateDatabase(p, u, d)
       \/ \E id \in OpId \cup {Generated} : UpdateDatabaseDdl(p, u, id)
       \/ ReleaseDatabase(p, u)
       \/ \E kind \in Kinds, n \in 1..MaxBatch : CreateSessions(p, u, kind, n)
  \/ \E s \in Sid : GetSession(p, s)

\* What a request goes on to do once it has been accepted.
Step(p) ==
  \/ UpdateSchema(p)
  \/ CreateDatabaseOperation(p)
  \/ DeleteDatabaseSessions(p)
  \/ RemoveDatabaseTransactions(p)
  \/ DeleteDatabaseOperations(p)
  \/ CreateSession(p)
  \/ Reserve(p)
  \/ FinishCopy(p)
  \/ UndoCopy(p)
  \/ Cleanup(p)
  \/ AddToCurrentTransactions(p)
  \/ EndRequest(p)

Sweep      == StartSweep \/ FinishSweep
Destroy(s) == DestroyCopy(s) \/ ReleaseReservation(s)

Next ==
  \/ \E p \in Rpc : Request(p) \/ Step(p)
  \/ \E o \in operations : DeleteOperation(o)
  \/ \E s \in Sid : DeleteSession(s) \/ Expire(s) \/ Destroy(s)
  \/ Sweep
  \/ \E u \in Uri, t \in TxnId : ClearOldTransactions(u, t)

Spec == Init /\ [][Next]_vars

\* A request that is being served goes on, the sweeping thread runs, and a
\* destructor finishes.
Fairness ==
  /\ \A p \in Rpc : WF_vars(Step(p))
  /\ WF_vars(Sweep)
  /\ \A s \in Sid : WF_vars(Destroy(s))

FairSpec == Spec /\ Fairness

--------------------------------------------------------------------------------
(* Properties *)

\* Once a drop has returned, nothing of its database is left or comes back: no
\* session, no transaction of a multiplexed session, no operation, although
\* requests that found the database before the drop may publish things at any
\* time (the comment on Database::dropped).
NothingOutlivesDrop ==
  \A d \in finished : /\ \A s \in inMap : session[s].db # d
                      /\ \A e \in DOMAIN mux : mux[e] # d
                      /\ \A o \in operations : o.db # d

\* The quota counts the registered databases, whatever drops and creations
\* under the same URI do (num_databases_per_instance_).
QuotaIsExact == count = Cardinality({u \in Uri : registered[u] # None})

\* A session a client can use goes only when it is deleted or expires, or with
\* its own database: not with another one of the same URI, nor by a sweep that
\* read the clock before the session was last used.
SessionsAreKept ==
  [][\A s \in inMap \ inMap' :
       \/ DatabaseDropped(s)
       \/ session[s].stale
       \/ s \notin returned
       \/ \A p \in Rpc : rpc'[p] = rpc[p] /\ sweeper' = sweeper]_vars

\* Every copy has exactly one reserved place from before it is made until after
\* it is destroyed, whatever fails in between, and there are never more than
\* allowed, counting those being made and those of deleted sessions that
\* requests still hold (EphemeralCapacity).
CopiesAreBounded ==
  /\ used = Cardinality({p \in Rpc : At(p, "copying") \/ At(p, "release")})
             + Cardinality({s \in Sid : session[s].kind = "ephemeral"
                                          /\ session[s].life \in {"alive", "copy gone"}})
  /\ used <= MaxCopies

\* A session is known to a client, or its request is still running: a batch
\* that fails leaves none behind.
SessionsAreReturned ==
  \A s \in inMap : s \in returned \/ \E p \in Rpc : s \in rpc[p].made

\* The copy of an ephemeral session whose database is dropped, or that is not
\* used any more, is released, and its place with it.
CopiesAreReleased ==
  \A s \in Sid :
    (session[s].life = "alive" /\ session[s].kind = "ephemeral"
       /\ (DatabaseDropped(s) \/ session[s].stale)) ~> session[s].life = "gone"

\* A transaction begun on a multiplexed session is found as long as its database
\* exists, although the map has only the URI and the id, and entries of a dropped
\* database may still be there when one is re-created under its URI
\* (AddToCurrentTransactions, GetCurrentTransactionOnMultiplexedSession).
BegunIsFound ==
  \A b \in begun : b[1] \in dropped \/ mux[<<uri[b[1]], b[2]>>] = b[1]
================================================================================
