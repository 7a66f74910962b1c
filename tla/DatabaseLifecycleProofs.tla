------------------------ MODULE DatabaseLifecycleProofs ------------------------
(******************************************************************************)
(* Proofs about DatabaseLifecycle, for any number of databases, URIs,         *)
(* requests and operations and any limits: nothing of a dropped database      *)
(* outlives the drop, the quota and the capacity for copies are exact,        *)
(* sessions are returned to a client or deleted, and kept while in use.       *)
(******************************************************************************)
EXTENDS DatabaseLifecycle, FiniteSetTheorems, TLAPS

--------------------------------------------------------------------------------
(* The inductive invariant *)

Phases == {"idle", "create operation", "update schema", "drop sessions",
           "drop transactions", "drop operations", "new session", "copying", "release",
           "cleanup", "using"}

RpcFields == [pc : Phases, db : Db \cup {None}, uri : Uri \cup {None},
              op : OpId \cup {Generated, None}, kind : Kinds \cup {None}, want : Int,
              made : SUBSET Sid, sid : Sid \cup {None}]

RpcState == {r \in RpcFields : /\ r.pc = "update schema" => r.uri \in Uri
                               /\ r.pc = "using" => r.sid \in Sid}

SessionState == [db : Db \cup {None}, kind : Kinds \cup {None}, stale : BOOLEAN,
                 life : {"new", "alive", "copy gone", "gone"}]

\* The types of the managers' state.
LifecycleTypeOK ==
  /\ registered \in [Uri -> Db \cup {None}]
  /\ count \in Int
  /\ uri \in [Db -> Uri \cup {None}]
  /\ dropped \subseteq Db
  /\ session \in [Sid -> SessionState]
  /\ inMap \subseteq Sid /\ returned \subseteq Sid
  /\ used \in Int
  /\ nextTxn \in [Db -> Nat]
  /\ mux \in [Uri \X TxnId -> Db \cup {None}]
  /\ rpc \in [Rpc -> RpcState]

NoSessions(d)     == \A s \in inMap : session[s].db # d
NoTransactions(d) == \A e \in DOMAIN mux : mux[e] # d
NoOperations(d)   == \A o \in operations : o.db # d

\* What the drop of r's database has already taken away stays away, and nothing
\* of a database is left when the drop has returned.
DropInv ==
  /\ finished \subseteq dropped
  /\ \A p \in Rpc :
       /\ rpc[p].pc \in {"drop sessions", "drop transactions", "drop operations"} =>
            rpc[p].db \in dropped
       /\ rpc[p].pc \in {"drop transactions", "drop operations"} => NoSessions(rpc[p].db)
       /\ rpc[p].pc = "drop operations" => NoTransactions(rpc[p].db)
  /\ NothingOutlivesDrop

Registered == {u \in Uri : registered[u] # None}

QuotaInv == IsFiniteSet(Registered) /\ QuotaIsExact

\* The sessions made so far have the first ids: a new one is not known anywhere.
FreshInv ==
  /\ \E n \in 0..MaxSid : \A s \in Sid : session[s].life # "new" <=> s <= n
  /\ \A s \in inMap \cup returned : session[s].life # "new"
  /\ \A p \in Rpc : \A s \in rpc[p].made : session[s].life # "new"

\* What a request has made is known to it alone until it returns.
MadeInv ==
  /\ \A p \in Rpc :
       /\ rpc[p].made # {} => rpc[p].pc \in {"new session", "copying", "release", "cleanup"}
       /\ \A s \in rpc[p].made : s \notin returned
  /\ \A p, q \in Rpc : \A s \in rpc[p].made : s \in rpc[q].made => p = q
  /\ SessionsAreReturned

\* What a sweep has found expired is expired.
SweepInv ==
  /\ sweeper # None => \A s \in sweeper : s \in Sid /\ session[s].stale
  /\ \A s \in Sid : session[s].stale => session[s].life # "new"

Copying == {p \in Rpc : At(p, "copying") \/ At(p, "release")}
Copies  == {s \in Sid : session[s].kind = "ephemeral"
                          /\ session[s].life \in {"alive", "copy gone"}}

\* A place is held for each copy in the making and each copy there is.
CopyInv ==
  /\ IsFiniteSet(Copying)
  /\ \A p \in Copying : rpc[p].kind = "ephemeral"
  /\ \A s \in Sid : session[s].life = "copy gone" => session[s].kind = "ephemeral"
  /\ CopiesAreBounded

Made(d) == d \in Db /\ uri[d] \in Uri

\* A database that is not dropped is the one registered under its URI, and requests
\* and sessions are of databases that exist.
OwnerInv ==
  /\ \A u \in Uri : registered[u] # None => uri[registered[u]] = u
  /\ \A d \in Db : uri[d] # None /\ d \notin dropped => registered[uri[d]] = d
  /\ \A p \in Rpc : rpc[p].kind # None => Made(rpc[p].db)
  /\ \A s \in Sid : session[s].kind # None => Made(session[s].db)

\* The ids of the transactions in the map have been drawn in their databases, and
\* are below those that the database now registered will draw.
IdInv ==
  /\ \A u \in Uri, t \in TxnId :
       mux[<<u, t>>] # None => uri[mux[<<u, t>>]] = u /\ t < nextTxn[mux[<<u, t>>]]
  /\ \A b \in begun : b \in Db \X TxnId /\ uri[b[1]] \in Uri
  /\ ~SetBack =>
       /\ \A u \in Uri, t \in TxnId :
            registered[u] # None /\ mux[<<u, t>>] # None => t < nextTxn[registered[u]]
       /\ BegunIsFound

LifecycleInv ==
  /\ LifecycleTypeOK
  /\ DropInv
  /\ QuotaInv
  /\ FreshInv
  /\ MadeInv
  /\ SweepInv
  /\ CopyInv
  /\ OwnerInv
  /\ IdInv

--------------------------------------------------------------------------------
(* Type correctness *)

\* A request that waits to be served is a request state.
LEMMA IdleType == Idle \in RpcState
<1>1. Idle \in RpcFields
  BY DEF Idle, RpcFields, Phases
<1>2. Idle.pc = "idle"
  BY DEF Idle
<1> QED BY Zenon, <1>1, <1>2 DEF RpcState

\* A step of one request, request by request.
LEMMA GoStep ==
  ASSUME LifecycleTypeOK, NEW p \in Rpc, NEW r, Go(p, r)
  PROVE  /\ rpc'[p] = r
         /\ \A q \in Rpc : q # p => rpc'[q] = rpc[q]
         /\ r \in RpcState => rpc' \in [Rpc -> RpcState]
BY DEF LifecycleTypeOK, Go

\* What a request knows.
LEMMA RpcType ==
  ASSUME LifecycleTypeOK, NEW p \in Rpc
  PROVE  /\ rpc[p] \in RpcState
         /\ rpc[p].pc \in Phases /\ rpc[p].db \in Db \cup {None}
         /\ rpc[p].want \in Int /\ rpc[p].made \subseteq Sid
         /\ rpc[p].kind \in Kinds \cup {None}
BY Zenon DEF LifecycleTypeOK, RpcState, RpcFields

\* The accepting steps of a request keep the types.
LEMMA RequestTypes ==
  ASSUME LifecycleTypeOK, NEW p \in Rpc, Request(p)
  PROVE  LifecycleTypeOK'
<1>1. ASSUME NEW u \in Uri, NEW d \in Db, CreateDatabase(p, u, d) PROVE LifecycleTypeOK'
  <2>1. [Idle EXCEPT !.pc = "create operation", !.db = d, !.op = Generated] \in RpcState
    BY Zenon, IdleType DEF RpcState, RpcFields, Phases
  <2>2. rpc' \in [Rpc -> RpcState]
    BY <1>1, <2>1, GoStep DEF CreateDatabase
  <2>3. nextTxn' \in [Db -> Nat]
    <3>1. PICK now \in TxnId : nextTxn' = [nextTxn EXCEPT ![d] = now]
      BY Zenon, <1>1 DEF CreateDatabase, FirstId
    <3>2. now \in Nat
      BY LifecycleAssumption DEF TxnId
    <3> QED BY <3>1, <3>2 DEF LifecycleTypeOK
  <2> QED BY <1>1, <2>2, <2>3 DEF CreateDatabase, LifecycleTypeOK, sessionVars
<1>2. ASSUME NEW u \in Uri, NEW id \in OpId \cup {Generated}, UpdateDatabaseDdl(p, u, id)
      PROVE  LifecycleTypeOK'
  <2>1. [Idle EXCEPT !.pc = "update schema", !.uri = u, !.op = id] \in RpcState
    BY Zenon, IdleType DEF RpcState, RpcFields, Phases
  <2>2. rpc' \in [Rpc -> RpcState]
    BY <1>2, <2>1, GoStep DEF UpdateDatabaseDdl
  <2> QED BY <1>2, <2>2 DEF UpdateDatabaseDdl, LifecycleTypeOK, dbVars, sessionVars, muxVars
<1>3. ASSUME NEW u \in Uri, ReleaseDatabase(p, u) PROVE LifecycleTypeOK'
  <2>0. registered[u] \in Db
    BY <1>3 DEF ReleaseDatabase, LifecycleTypeOK
  <2>1. [Idle EXCEPT !.pc = "drop sessions", !.db = registered[u]] \in RpcState
    BY Zenon, <2>0, IdleType DEF RpcState, RpcFields, Phases
  <2>2. rpc' \in [Rpc -> RpcState]
    BY <1>3, <2>1, GoStep DEF ReleaseDatabase
  <2> QED BY <1>3, <2>0, <2>2 DEF ReleaseDatabase, LifecycleTypeOK, sessionVars, muxVars
<1>4. ASSUME NEW u \in Uri, NEW kind \in Kinds, NEW n \in 1..MaxBatch,
             CreateSessions(p, u, kind, n)
      PROVE  LifecycleTypeOK'
  <2>0. registered[u] \in Db /\ n \in Int
    BY <1>4 DEF CreateSessions, LifecycleTypeOK
  <2>1. [Idle EXCEPT !.pc = "new session", !.db = registered[u], !.kind = kind,
                     !.want = n] \in RpcState
    BY Zenon, <2>0, IdleType DEF RpcState, RpcFields, Phases
  <2>2. rpc' \in [Rpc -> RpcState]
    BY <1>4, <2>1, GoStep DEF CreateSessions
  <2> QED BY <1>4, <2>2 DEF CreateSessions, LifecycleTypeOK, dbVars, sessionVars, muxVars
<1>5. ASSUME NEW s \in Sid, GetSession(p, s) PROVE LifecycleTypeOK'
  <2>1. [Idle EXCEPT !.pc = "using", !.sid = s] \in RpcState
    BY Zenon, IdleType DEF RpcState, RpcFields, Phases
  <2>2. rpc' \in [Rpc -> RpcState] /\ inMap' \subseteq Sid
    BY <1>5, <2>1, GoStep DEF GetSession, LifecycleTypeOK
  <2> QED BY <1>5, <2>2 DEF GetSession, LifecycleTypeOK, dbVars, muxVars
<1> QED BY <1>1, <1>2, <1>3, <1>4, <1>5 DEF Request

\* A new session keeps the types.
LEMMA PublishTypes ==
  ASSUME LifecycleTypeOK, NEW p \in Rpc, Publish(p)
  PROVE  /\ session' \in [Sid -> SessionState]
         /\ inMap' \subseteq Sid /\ returned' \subseteq Sid
         /\ rpc' \in [Rpc -> RpcState]
<1> DEFINE s   == NewSid
           all == rpc[p].made \cup {s}
           new == [db |-> rpc[p].db, kind |-> rpc[p].kind, stale |-> FALSE, life |-> "alive"]
<1>1. /\ s \in Sid /\ session' = [session EXCEPT ![s] = new] /\ inMap' = inMap \cup {s}
      /\ \/ Go(p, Idle) /\ returned' = returned \cup all
         \/ /\ Go(p, [rpc[p] EXCEPT !.pc = "new session", !.want = @ - 1, !.made = all])
            /\ UNCHANGED returned
  BY DEF Publish
<1>2. all \subseteq Sid
  BY <1>1, RpcType
<1>3. new \in SessionState
  BY RpcType DEF SessionState
<1> HIDE DEF s, all, new
<1>4. [rpc[p] EXCEPT !.pc = "new session", !.want = @ - 1, !.made = all] \in RpcState
  <2>1. rpc[p] \in RpcState /\ rpc[p].want - 1 \in Int
    BY RpcType
  <2>2. \A w \in Int : [rpc[p] EXCEPT !.pc = "new session", !.want = w, !.made = all]
                         \in RpcState
    BY Zenon, <1>2, <2>1 DEF RpcState, RpcFields, Phases
  <2> QED BY Zenon, <2>1, <2>2
<1>5. rpc' \in [Rpc -> RpcState]
  BY <1>1, <1>4, IdleType, GoStep
<1> QED BY <1>1, <1>2, <1>3, <1>5 DEF LifecycleTypeOK

\* A request that fails keeps the types.
LEMMA FailTypes ==
  ASSUME LifecycleTypeOK, NEW p \in Rpc, Fail(p)
  PROVE  rpc' \in [Rpc -> RpcState]
<1>1. [rpc[p] EXCEPT !.pc = "cleanup"] \in RpcState
  BY Zenon, RpcType DEF RpcState, RpcFields, Phases
<1>2. (IF rpc[p].made = {} THEN Idle ELSE [rpc[p] EXCEPT !.pc = "cleanup"]) \in RpcState
  BY <1>1, IdleType
<1> QED BY <1>2, GoStep DEF Fail

\* A request that goes on to its next phase keeps the types.
LEMMA GotoTypes ==
  ASSUME LifecycleTypeOK, NEW p \in Rpc, NEW to \in Phases \ {"update schema", "using"},
         Goto(p, to)
  PROVE  rpc' \in [Rpc -> RpcState]
<1>1. [rpc[p] EXCEPT !.pc = to] \in RpcState
  <2>1. [rpc[p] EXCEPT !.pc = to] \in RpcFields
    BY Zenon, RpcType DEF RpcState, RpcFields
  <2>2. [rpc[p] EXCEPT !.pc = to].pc = to
    BY Zenon, RpcType DEF RpcState, RpcFields
  <2> QED BY Zenon, <2>1, <2>2 DEF RpcState
<1> QED BY Zenon, <1>1, GoStep DEF Goto

\* The later steps of a request keep the types.
LEMMA StepTypes ==
  ASSUME LifecycleTypeOK, NEW p \in Rpc, Step(p)
  PROVE  LifecycleTypeOK'
<1> USE DEF dbVars, sessionVars, muxVars
<1>1. CASE UpdateSchema(p)
  <2>1. rpc[p].uri \in Uri
    BY Zenon, <1>1, RpcType DEF UpdateSchema, At, RpcState
  <2>2. \/ \E d \in Db : Go(p, [rpc[p] EXCEPT !.pc = "create operation", !.db = d])
        \/ Go(p, Idle)
    BY Zenon, <1>1, <2>1 DEF UpdateSchema, LifecycleTypeOK
  <2>3. \A d \in Db : [rpc[p] EXCEPT !.pc = "create operation", !.db = d] \in RpcState
    BY Zenon, RpcType DEF RpcState, RpcFields, Phases
  <2>4. rpc' \in [Rpc -> RpcState]
    BY Zenon, <2>2, <2>3, IdleType, GoStep
  <2> QED BY Zenon, <1>1, <2>4 DEF UpdateSchema, LifecycleTypeOK
<1>2. CASE CreateDatabaseOperation(p)
  <2>1. rpc' \in [Rpc -> RpcState]
    BY Zenon, <1>2, IdleType, GoStep DEF CreateDatabaseOperation
  <2> QED BY Zenon, <1>2, <2>1 DEF CreateDatabaseOperation, LifecycleTypeOK
<1>3. CASE DeleteDatabaseSessions(p)
  <2>1. rpc' \in [Rpc -> RpcState]
    BY Zenon, <1>3, GotoTypes DEF DeleteDatabaseSessions, Phases
  <2> QED BY Zenon, <1>3, <2>1 DEF DeleteDatabaseSessions, LifecycleTypeOK
<1>4. CASE RemoveDatabaseTransactions(p)
  <2>1. rpc' \in [Rpc -> RpcState]
    BY Zenon, <1>4, GotoTypes DEF RemoveDatabaseTransactions, Phases
  <2>2. mux' \in [Uri \X TxnId -> Db \cup {None}]
    BY Zenon, <1>4 DEF RemoveDatabaseTransactions, LifecycleTypeOK
  <2> QED BY Zenon, <1>4, <2>1, <2>2 DEF RemoveDatabaseTransactions, LifecycleTypeOK
<1>5. CASE DeleteDatabaseOperations(p)
  <2>1. rpc' \in [Rpc -> RpcState]
    BY Zenon, <1>5, IdleType, GoStep DEF DeleteDatabaseOperations
  <2> QED BY Zenon, <1>5, <2>1 DEF DeleteDatabaseOperations, LifecycleTypeOK
<1>6. CASE CreateSession(p)
  <2>1. \/ Publish(p)
        \/ Fail(p) /\ UNCHANGED <<session, inMap, returned>>
    BY Zenon, <1>6 DEF CreateSession
  <2>2. /\ session' \in [Sid -> SessionState] /\ inMap' \subseteq Sid
        /\ returned' \subseteq Sid /\ rpc' \in [Rpc -> RpcState]
    BY <2>1, PublishTypes, FailTypes DEF LifecycleTypeOK
  <2> QED BY Zenon, <1>6, <2>2 DEF CreateSession, LifecycleTypeOK
<1>7. CASE Reserve(p)
  <2>1. rpc' \in [Rpc -> RpcState] /\ used' \in Int
    <3>1. \/ Fail(p) /\ used' = used
          \/ Goto(p, "copying") /\ used' = used + 1
      BY Zenon, <1>7 DEF Reserve
    <3>2. "copying" \in Phases \ {"update schema", "using"}
      BY DEF Phases
    <3>3. rpc' \in [Rpc -> RpcState]
      BY Zenon, <3>1, <3>2, FailTypes, GotoTypes
    <3>4. used' \in Int
      BY <3>1 DEF LifecycleTypeOK
    <3> QED BY <3>3, <3>4
  <2> QED BY Zenon, <1>7, <2>1 DEF Reserve, LifecycleTypeOK
<1>8. CASE FinishCopy(p)
  <2>1. \/ Publish(p)
        \/ Goto(p, "release") /\ UNCHANGED <<session, inMap, returned>>
    BY <1>8 DEF FinishCopy
  <2>2. /\ session' \in [Sid -> SessionState] /\ inMap' \subseteq Sid
        /\ returned' \subseteq Sid /\ rpc' \in [Rpc -> RpcState]
    BY Zenon, <2>1, PublishTypes, GotoTypes DEF LifecycleTypeOK, Phases
  <2> QED BY <1>8, <2>2 DEF FinishCopy, LifecycleTypeOK
<1>9. CASE UndoCopy(p)
  <2>1. rpc' \in [Rpc -> RpcState] /\ used' \in Int
    BY <1>9, FailTypes DEF UndoCopy, LifecycleTypeOK
  <2> QED BY <1>9, <2>1 DEF UndoCopy, LifecycleTypeOK
<1>10. CASE Cleanup(p)
  <2>1. PICK s \in rpc[p].made :
          /\ inMap' = inMap \ {s}
          /\ Go(p, IF rpc[p].made = {s} THEN Idle ELSE [rpc[p] EXCEPT !.made = @ \ {s}])
    BY Zenon, <1>10 DEF Cleanup
  <2>2. \A m \in SUBSET Sid : [rpc[p] EXCEPT !.made = m] \in RpcState
    BY Zenon, RpcType DEF RpcState, RpcFields
  <2>3. [rpc[p] EXCEPT !.made = @ \ {s}] \in RpcState
    BY <2>2, RpcType
  <2>4. rpc' \in [Rpc -> RpcState]
    BY <2>1, <2>3, IdleType, GoStep
  <2> QED BY <1>10, <2>1, <2>4 DEF Cleanup, LifecycleTypeOK
<1>11. CASE AddToCurrentTransactions(p)
  <2>1. rpc' \in [Rpc -> RpcState]
    BY Zenon, <1>11, IdleType, GoStep DEF AddToCurrentTransactions
  <2>2. rpc[p].sid \in Sid
    BY Zenon, <1>11, RpcType DEF AddToCurrentTransactions, At, RpcState
  <2>3. session[rpc[p].sid].db \in Db \cup {None}
    BY Zenon, <2>2 DEF LifecycleTypeOK, SessionState
  <2>4. nextTxn' \in [Db -> Nat] /\ mux' \in [Uri \X TxnId -> Db \cup {None}]
    <3>1. PICK d \in Db \cup {None} : d = session[rpc[p].sid].db
      BY <2>3
    <3>2. PICK t \in TxnId : nextTxn' = [nextTxn EXCEPT ![d] = t + 1]
      BY Zenon, <1>11, <3>1 DEF AddToCurrentTransactions
    <3>3. mux' = mux \/ \E e : mux' = [mux EXCEPT ![e] = d]
      BY Zenon, <1>11, <3>1 DEF AddToCurrentTransactions
    <3>4. nextTxn' \in [Db -> Nat]
      <4>1. t + 1 \in Nat
        BY LifecycleAssumption DEF TxnId
      <4> QED BY Zenon, <3>2, <4>1 DEF LifecycleTypeOK
    <3>5. mux' \in [Uri \X TxnId -> Db \cup {None}]
      BY <3>3 DEF LifecycleTypeOK
    <3> QED BY <3>4, <3>5
  <2> QED BY Zenon, <1>11, <2>1, <2>4 DEF AddToCurrentTransactions, LifecycleTypeOK
<1>12. CASE EndRequest(p)
  <2>1. rpc' \in [Rpc -> RpcState]
    BY <1>12, IdleType, GoStep DEF EndRequest
  <2> QED BY <1>12, <2>1 DEF EndRequest, LifecycleTypeOK
<1> QED BY <1>1, <1>2, <1>3, <1>4, <1>5, <1>6, <1>7, <1>8, <1>9, <1>10, <1>11, <1>12 DEF Step

\* Every step keeps the types.
LEMMA TypeStep == LifecycleTypeOK /\ [Next]_vars => LifecycleTypeOK'
<1> SUFFICES ASSUME LifecycleTypeOK, [Next]_vars PROVE LifecycleTypeOK'
  OBVIOUS
<1> USE DEF dbVars, sessionVars, muxVars
<1>1. ASSUME NEW p \in Rpc, Request(p) \/ Step(p) PROVE LifecycleTypeOK'
  BY <1>1, RequestTypes, StepTypes
<1>2. ASSUME NEW o \in operations, DeleteOperation(o) PROVE LifecycleTypeOK'
  BY <1>2 DEF DeleteOperation, LifecycleTypeOK
<1>3. ASSUME NEW s \in Sid, DeleteSession(s) PROVE LifecycleTypeOK'
  BY <1>3 DEF DeleteSession, LifecycleTypeOK
<1>4. ASSUME NEW s \in Sid, Expire(s) \/ Destroy(s) PROVE LifecycleTypeOK'
  <2>0. session[s] \in SessionState
    BY DEF LifecycleTypeOK
  <2>1. /\ [session[s] EXCEPT !.stale = TRUE] \in SessionState
        /\ [session[s] EXCEPT !.life = "copy gone"] \in SessionState
        /\ [session[s] EXCEPT !.life = "gone"] \in SessionState
    BY Zenon, <2>0 DEF SessionState
  <2>2. \E r \in SessionState : session' = [session EXCEPT ![s] = r]
    BY Zenon, <1>4, <2>1 DEF Expire, Destroy, DestroyCopy, ReleaseReservation
  <2>3. session' \in [Sid -> SessionState]
    BY <2>2 DEF LifecycleTypeOK
  <2>4. used' \in Int
    <3>1. used' = used \/ used' = used - 1
      BY <1>4, Zenon DEF Expire, Destroy, DestroyCopy, ReleaseReservation
    <3> QED BY <3>1 DEF LifecycleTypeOK
  <2> QED BY Zenon, <1>4, <2>3, <2>4 DEF LifecycleTypeOK, Expire, Destroy, DestroyCopy, ReleaseReservation
<1>5. CASE Sweep
  BY <1>5 DEF Sweep, StartSweep, FinishSweep, LifecycleTypeOK
<1>6. ASSUME NEW u \in Uri, NEW t \in TxnId, ClearOldTransactions(u, t) PROVE LifecycleTypeOK'
  <2>1. mux' \in [Uri \X TxnId -> Db \cup {None}]
    BY <1>6 DEF ClearOldTransactions, LifecycleTypeOK
  <2> QED BY <1>6, <2>1 DEF ClearOldTransactions, LifecycleTypeOK
<1>7. CASE UNCHANGED vars
  BY <1>7 DEF vars, LifecycleTypeOK
<1> QED BY <1>1, <1>2, <1>3, <1>4, <1>5, <1>6, <1>7 DEF Next

--------------------------------------------------------------------------------
(* Databases: a drop and what it takes away *)

\* Databases come and go by CreateDatabase and ReleaseDatabase alone.
LEMMA DatabaseSteps ==
  ASSUME [Next]_vars
  PROVE  \/ UNCHANGED <<registered, count, uri, dropped>>
         \/ \E p \in Rpc, u \in Uri : \/ \E d \in Db : CreateDatabase(p, u, d)
                                      \/ ReleaseDatabase(p, u)
<1> USE DEF dbVars, sessionVars, muxVars
<1>1. ASSUME NEW p \in Rpc, Request(p)
      PROVE  \/ UNCHANGED <<registered, count, uri, dropped>>
             \/ \E u \in Uri : (\E d \in Db : CreateDatabase(p, u, d)) \/ ReleaseDatabase(p, u)
  <2>1. ASSUME NEW u \in Uri, NEW id, UpdateDatabaseDdl(p, u, id)
        PROVE  UNCHANGED <<registered, count, uri, dropped>>
    BY <2>1 DEF UpdateDatabaseDdl
  <2>2. ASSUME NEW u \in Uri, NEW kind, NEW n, CreateSessions(p, u, kind, n)
        PROVE  UNCHANGED <<registered, count, uri, dropped>>
    BY <2>2 DEF CreateSessions
  <2>3. ASSUME NEW s, GetSession(p, s) PROVE UNCHANGED <<registered, count, uri, dropped>>
    BY <2>3 DEF GetSession
  <2> QED BY <1>1, <2>1, <2>2, <2>3 DEF Request
<1>2. ASSUME NEW p \in Rpc, Step(p) PROVE UNCHANGED <<registered, count, uri, dropped>>
  BY Zenon, <1>2 DEF Step, UpdateSchema, CreateDatabaseOperation, DeleteDatabaseSessions,
     RemoveDatabaseTransactions, DeleteDatabaseOperations, CreateSession, Reserve,
     FinishCopy, UndoCopy, Cleanup, AddToCurrentTransactions, EndRequest
<1>3. CASE \E o \in operations : DeleteOperation(o)
  BY <1>3 DEF DeleteOperation
<1>4. CASE \E s \in Sid : DeleteSession(s) \/ Expire(s) \/ Destroy(s)
  BY Zenon, <1>4 DEF DeleteSession, Expire, Destroy, DestroyCopy, ReleaseReservation
<1>5. CASE Sweep
  BY <1>5 DEF Sweep, StartSweep, FinishSweep
<1>6. CASE \E u \in Uri, t \in TxnId : ClearOldTransactions(u, t)
  BY <1>6 DEF ClearOldTransactions
<1>7. CASE UNCHANGED vars
  BY <1>7 DEF vars
<1> QED BY <1>1, <1>2, <1>3, <1>4, <1>5, <1>6, <1>7 DEF Next

\* The quota goes up and down with the databases.
LEMMA QuotaStep ==
  ASSUME LifecycleTypeOK, QuotaInv, [Next]_vars
  PROVE  QuotaInv'
<1>0. IsFiniteSet(Registered) /\ count = Cardinality(Registered) /\ count \in Int
  BY DEF QuotaInv, QuotaIsExact, Registered, LifecycleTypeOK
<1>1. CASE UNCHANGED <<registered, count, uri, dropped>>
  BY <1>1 DEF QuotaInv, QuotaIsExact, Registered
<1>2. ASSUME NEW p \in Rpc, NEW u \in Uri, NEW d \in Db, CreateDatabase(p, u, d)
      PROVE  QuotaInv'
  <2>1. registered[u] = None /\ registered' = [registered EXCEPT ![u] = d] /\ count' = count + 1
    BY <1>2 DEF CreateDatabase
  <2>2. d # None
    BY LifecycleAssumption
  <2>3. u \notin Registered /\ Registered' = Registered \cup {u}
    BY <2>1, <2>2 DEF Registered, LifecycleTypeOK
  <2>4. IsFiniteSet(Registered') /\ Cardinality(Registered') = Cardinality(Registered) + 1
    BY <1>0, <2>3, FS_AddElement
  <2> QED BY <1>0, <2>1, <2>4 DEF QuotaInv, QuotaIsExact, Registered
<1>3. ASSUME NEW p \in Rpc, NEW u \in Uri, ReleaseDatabase(p, u)
      PROVE  QuotaInv'
  <2>1. registered[u] # None /\ registered' = [registered EXCEPT ![u] = None] /\ count' = count - 1
    BY <1>3 DEF ReleaseDatabase
  <2>2. u \in Registered /\ Registered' = Registered \ {u}
    BY <2>1 DEF Registered, LifecycleTypeOK
  <2>3. IsFiniteSet(Registered') /\ Cardinality(Registered') = Cardinality(Registered) - 1
    BY <1>0, <2>2, FS_RemoveElement
  <2> QED BY <1>0, <2>1, <2>3 DEF QuotaInv, QuotaIsExact, Registered
<1> QED BY <1>1, <1>2, <1>3, DatabaseSteps

\* A request that goes on keeps all but its phase.
LEMMA GotoStep ==
  ASSUME LifecycleTypeOK, NEW p \in Rpc, NEW to, Goto(p, to)
  PROVE  /\ rpc'[p].pc = to /\ rpc'[p].db = rpc[p].db /\ rpc'[p].kind = rpc[p].kind
         /\ rpc'[p].made = rpc[p].made
         /\ \A q \in Rpc : q # p => rpc'[q] = rpc[q]
<1>1. rpc'[p] = [rpc[p] EXCEPT !.pc = to] /\ \A q \in Rpc : q # p => rpc'[q] = rpc[q]
  BY GoStep DEF Goto
<1>2. rpc[p] \in RpcFields
  BY Zenon, RpcType DEF RpcState
<1> QED BY <1>1, <1>2 DEF RpcFields

\* A request that fails is served, or goes on to delete what it has made.
LEMMA FailStep ==
  ASSUME LifecycleTypeOK, NEW p \in Rpc, Fail(p)
  PROVE  /\ rpc'[p].made = rpc[p].made
         /\ rpc'[p].pc \in {"idle", "cleanup"}
         /\ rpc'[p].made # {} => rpc'[p].pc = "cleanup"
         /\ \A q \in Rpc : q # p => rpc'[q] = rpc[q]
<1>1. CASE rpc[p].made = {}
  <2>1. Go(p, Idle)
    BY <1>1 DEF Fail
  <2>2. rpc'[p] = Idle /\ \A q \in Rpc : q # p => rpc'[q] = rpc[q]
    BY <2>1, GoStep
  <2> QED BY <1>1, <2>2 DEF Idle
<1>2. CASE rpc[p].made # {}
  <2>1. Goto(p, "cleanup")
    BY <1>2 DEF Fail, Goto
  <2> QED BY <2>1, GotoStep
<1> QED BY <1>1, <1>2

\* What becomes of a session that exists already.
Kept(s) ==
  /\ session'[s].db = session[s].db /\ session'[s].kind = session[s].kind
  /\ session'[s].life = "new" <=> session[s].life = "new"
  /\ session[s].stale => session'[s].stale
  /\ session'[s].stale => session[s].stale \/ s \in inMap

\* Sessions are made by requests that have found their database not dropped;
\* all other steps keep them and at most delete some.
LEMMA SessionSteps ==
  ASSUME LifecycleTypeOK, [Next]_vars
  PROVE  \/ \E p \in Rpc : (CreateSession(p) \/ FinishCopy(p)) /\ Publish(p)
                           /\ rpc[p].db \notin dropped
         \/ /\ inMap' \subseteq inMap /\ returned' = returned
            /\ \A s \in Sid : Kept(s)
<1> USE DEF dbVars, sessionVars, muxVars
<1>1. ASSUME session' = session PROVE \A s \in Sid : Kept(s)
  BY <1>1 DEF Kept
<1>2. ASSUME NEW p \in Rpc, Request(p)
      PROVE  inMap' \subseteq inMap /\ returned' = returned /\ session' = session
  <2>1. ASSUME NEW u \in Uri, NEW d, CreateDatabase(p, u, d)
        PROVE  inMap' \subseteq inMap /\ returned' = returned /\ session' = session
    BY <2>1 DEF CreateDatabase
  <2>2. ASSUME NEW u \in Uri, NEW id, UpdateDatabaseDdl(p, u, id)
        PROVE  inMap' \subseteq inMap /\ returned' = returned /\ session' = session
    BY <2>2 DEF UpdateDatabaseDdl
  <2>3. ASSUME NEW u \in Uri, NEW kind, NEW n, CreateSessions(p, u, kind, n)
        PROVE  inMap' \subseteq inMap /\ returned' = returned /\ session' = session
    BY <2>3 DEF CreateSessions
  <2>4. ASSUME NEW s, GetSession(p, s)
        PROVE  inMap' \subseteq inMap /\ returned' = returned /\ session' = session
    BY <2>4 DEF GetSession
  <2>5. ASSUME NEW u \in Uri, ReleaseDatabase(p, u)
        PROVE  inMap' \subseteq inMap /\ returned' = returned /\ session' = session
    BY <2>5 DEF ReleaseDatabase
  <2> QED BY <1>2, <2>1, <2>2, <2>3, <2>4, <2>5 DEF Request
<1>3. ASSUME NEW p \in Rpc, Step(p), ~((CreateSession(p) \/ FinishCopy(p)) /\ Publish(p)
                                       /\ rpc[p].db \notin dropped)
      PROVE  inMap' \subseteq inMap /\ returned' = returned /\ session' = session
  <2>1. CASE CreateSession(p) \/ FinishCopy(p)
    BY Zenon, <1>3, <2>1 DEF CreateSession, FinishCopy
  <2>2. CASE Cleanup(p) \/ DeleteDatabaseSessions(p)
    BY Zenon, <2>2 DEF Cleanup, DeleteDatabaseSessions
  <2>3. CASE \/ UpdateSchema(p) \/ CreateDatabaseOperation(p) \/ RemoveDatabaseTransactions(p)
             \/ DeleteDatabaseOperations(p) \/ Reserve(p) \/ UndoCopy(p)
             \/ AddToCurrentTransactions(p) \/ EndRequest(p)
    BY Zenon, <2>3 DEF UpdateSchema, CreateDatabaseOperation, RemoveDatabaseTransactions,
       DeleteDatabaseOperations, Reserve, UndoCopy, AddToCurrentTransactions, EndRequest
  <2> QED BY <1>3, <2>1, <2>2, <2>3 DEF Step
<1>4. CASE \E o \in operations : DeleteOperation(o)
  BY <1>1, <1>4 DEF DeleteOperation
<1>5. ASSUME NEW s \in Sid, DeleteSession(s)
      PROVE  inMap' \subseteq inMap /\ returned' = returned /\ session' = session
  BY <1>5 DEF DeleteSession
<1>6. ASSUME NEW s \in Sid, Expire(s) \/ Destroy(s)
      PROVE  inMap' = inMap /\ returned' = returned /\ \A x \in Sid : Kept(x)
  <2>1. inMap' = inMap /\ returned' = returned
    BY Zenon, <1>6 DEF Expire, Destroy, DestroyCopy, ReleaseReservation
  <2>2. session \in [Sid -> SessionState]
    BY DEF LifecycleTypeOK
  <2>3. CASE Expire(s)
    <3>1. session' = [session EXCEPT ![s] = [session[s] EXCEPT !.stale = TRUE]] /\ s \in inMap
      BY <2>3 DEF Expire
    <3>2. \A x \in Sid : x # s => Kept(x)
      BY <2>2, <3>1 DEF Kept
    <3>3. /\ session'[s].db = session[s].db /\ session'[s].kind = session[s].kind
          /\ session'[s].life = session[s].life /\ session'[s].stale
      BY Zenon, <2>2, <3>1 DEF SessionState
    <3>4. Kept(s)
      BY <3>1, <3>3, Zenon DEF Kept
    <3> QED BY <2>1, <3>2, <3>4
  <2>4. CASE Destroy(s)
    <3>1. /\ session[s].life # "new"
          /\ \E l \in {"copy gone", "gone"} :
               session' = [session EXCEPT ![s] = [session[s] EXCEPT !.life = l]]
      BY Zenon, <2>4 DEF Destroy, DestroyCopy, ReleaseReservation
    <3>2. \A x \in Sid : x # s => Kept(x)
      BY Zenon, <2>2, <3>1 DEF Kept
    <3>3. /\ session'[s].db = session[s].db /\ session'[s].kind = session[s].kind
          /\ session'[s].life # "new" /\ session'[s].stale = session[s].stale
      BY Zenon, <2>2, <3>1 DEF SessionState
    <3>4. Kept(s)
      BY <3>1, <3>3, Zenon DEF Kept
    <3> QED BY <2>1, <3>2, <3>4
  <2> QED BY <1>6, <2>1, <2>3, <2>4
<1>7. CASE Sweep
  BY <1>1, <1>7 DEF Sweep, StartSweep, FinishSweep
<1>8. CASE \E u \in Uri, t \in TxnId : ClearOldTransactions(u, t)
  BY <1>1, <1>8 DEF ClearOldTransactions
<1>9. CASE UNCHANGED vars
  BY <1>1, <1>9 DEF vars
<1> QED BY <1>1, <1>2, <1>3, <1>4, <1>5, <1>6, <1>7, <1>8, <1>9 DEF Next

\* Entries of the map of transactions go, or are made for databases that are not
\* dropped, and so are operations.
LEMMA EntrySteps ==
  ASSUME LifecycleTypeOK, [Next]_vars
  PROVE  /\ DOMAIN mux' = DOMAIN mux
         /\ \A e \in DOMAIN mux : mux'[e] \in {mux[e], None} \/ mux'[e] \notin dropped
         /\ \A o \in operations' : o \in operations \/ o.db \notin dropped
<1> USE DEF dbVars, sessionVars, muxVars
<1>0. mux \in [Uri \X TxnId -> Db \cup {None}]
  BY DEF LifecycleTypeOK
<1> DEFINE Entries == /\ DOMAIN mux' = DOMAIN mux
                      /\ \A e \in DOMAIN mux : mux'[e] \in {mux[e], None} \/ mux'[e] \notin dropped
           Operations == \A o \in operations' : o \in operations \/ o.db \notin dropped
<1>1. ASSUME NEW p \in Rpc, Request(p) PROVE mux' = mux /\ operations' = operations
  <2>1. ASSUME NEW u \in Uri, NEW d, CreateDatabase(p, u, d)
        PROVE  mux' = mux /\ operations' = operations
    BY <2>1 DEF CreateDatabase
  <2>2. ASSUME NEW u \in Uri, NEW id, UpdateDatabaseDdl(p, u, id)
        PROVE  mux' = mux /\ operations' = operations
    BY <2>2 DEF UpdateDatabaseDdl
  <2>3. ASSUME NEW u \in Uri, NEW kind, NEW n, CreateSessions(p, u, kind, n)
        PROVE  mux' = mux /\ operations' = operations
    BY <2>3 DEF CreateSessions
  <2>4. ASSUME NEW s, GetSession(p, s) PROVE mux' = mux /\ operations' = operations
    BY <2>4 DEF GetSession
  <2>5. ASSUME NEW u \in Uri, ReleaseDatabase(p, u)
        PROVE  mux' = mux /\ operations' = operations
    BY <2>5 DEF ReleaseDatabase
  <2> QED BY <1>1, <2>1, <2>2, <2>3, <2>4, <2>5 DEF Request
<1>2. ASSUME NEW p \in Rpc, Step(p) PROVE Entries /\ Operations
  <2>1. CASE CreateDatabaseOperation(p)
    <3>1. mux' = mux
      BY Zenon, <2>1 DEF CreateDatabaseOperation
    <3>2. \/ operations' = operations
          \/ /\ rpc[p].db \notin dropped
             /\ \E u, id : operations' = operations \cup {[uri |-> u, id |-> id, db |-> rpc[p].db]}
      BY Zenon, <2>1 DEF CreateDatabaseOperation
    <3> QED BY <3>1, <3>2
  <2>2. CASE RemoveDatabaseTransactions(p)
    BY Zenon, <1>0, <2>2 DEF RemoveDatabaseTransactions
  <2>3. CASE DeleteDatabaseOperations(p)
    BY Zenon, <2>3 DEF DeleteDatabaseOperations
  <2>4. CASE AddToCurrentTransactions(p)
    <3>1. operations' = operations
      BY Zenon, <2>4 DEF AddToCurrentTransactions
    <3>2. mux' = mux \/ \E d, e : d \notin dropped /\ mux' = [mux EXCEPT ![e] = d]
      BY Zenon, <2>4 DEF AddToCurrentTransactions
    <3> QED BY <1>0, <3>1, <3>2
  <2>5. CASE \/ UpdateSchema(p) \/ DeleteDatabaseSessions(p) \/ CreateSession(p)
             \/ Reserve(p) \/ FinishCopy(p) \/ UndoCopy(p) \/ Cleanup(p) \/ EndRequest(p)
    BY Zenon, <2>5 DEF UpdateSchema, DeleteDatabaseSessions, CreateSession, Reserve, FinishCopy,
       UndoCopy, Cleanup, EndRequest
  <2> QED BY <1>2, <2>1, <2>2, <2>3, <2>4, <2>5 DEF Step
<1>3. CASE \E o \in operations : DeleteOperation(o)
  BY <1>3 DEF DeleteOperation
<1>4. CASE \E s \in Sid : DeleteSession(s) \/ Expire(s) \/ Destroy(s)
  BY Zenon, <1>4 DEF DeleteSession, Expire, Destroy, DestroyCopy, ReleaseReservation
<1>5. CASE Sweep
  BY <1>5 DEF Sweep, StartSweep, FinishSweep
<1>6. CASE \E u \in Uri, t \in TxnId : ClearOldTransactions(u, t)
  BY <1>0, <1>6 DEF ClearOldTransactions
<1>7. CASE UNCHANGED vars
  BY <1>7 DEF vars
<1> QED BY <1>1, <1>2, <1>3, <1>4, <1>5, <1>6, <1>7 DEF Next

\* Nothing comes back to a database that is dropped.
LEMMA DroppedStaysEmpty ==
  ASSUME LifecycleTypeOK, [Next]_vars, NEW d \in dropped
  PROVE  /\ d \in dropped'
         /\ NoSessions(d) => NoSessions(d)'
         /\ NoTransactions(d) => NoTransactions(d)'
         /\ NoOperations(d) => NoOperations(d)'
<1>1. d \in dropped'
  BY Zenon, DatabaseSteps DEF CreateDatabase, ReleaseDatabase
<1>2. ASSUME NoSessions(d) PROVE NoSessions(d)'
  <2>1. ASSUME NEW p \in Rpc, Publish(p), rpc[p].db \notin dropped PROVE NoSessions(d)'
    <3>1. PICK s \in Sid : /\ session' = [session EXCEPT ![s] =
                                [db |-> rpc[p].db, kind |-> rpc[p].kind,
                                 stale |-> FALSE, life |-> "alive"]]
                           /\ inMap' = inMap \cup {s}
      BY Zenon, <2>1 DEF Publish
    <3> QED BY <1>2, <2>1, <3>1 DEF NoSessions, LifecycleTypeOK
  <2>2. CASE inMap' \subseteq inMap /\ \A s \in Sid : Kept(s)
    BY <1>2, <2>2 DEF NoSessions, Kept, LifecycleTypeOK
  <2> QED BY <2>1, <2>2, SessionSteps
<1>3. ASSUME NoTransactions(d) PROVE NoTransactions(d)'
  <2>1. d # None
    BY LifecycleAssumption DEF LifecycleTypeOK
  <2> QED BY <1>3, <2>1, EntrySteps DEF NoTransactions
<1>4. ASSUME NoOperations(d) PROVE NoOperations(d)'
  BY <1>4, EntrySteps DEF NoOperations
<1> QED BY <1>1, <1>2, <1>3, <1>4

\* A request enters a phase of a drop by the step before it.
LEMMA DropPhases ==
  ASSUME LifecycleTypeOK, [Next]_vars, NEW p \in Rpc,
         rpc'[p].pc \in {"drop sessions", "drop transactions", "drop operations"}
  PROVE  \/ rpc'[p] = rpc[p]
         \/ \E u \in Uri : ReleaseDatabase(p, u)
         \/ DeleteDatabaseSessions(p)
         \/ RemoveDatabaseTransactions(p)
<1> DEFINE Drop == {"drop sessions", "drop transactions", "drop operations"}
<1>0. /\ rpc'[p].pc \in Drop
      /\ Idle.pc = "idle"
  BY Zenon DEF Idle
<1>1. ASSUME NEW q \in Rpc, NEW r, Go(q, r), r.pc \notin Drop PROVE rpc'[p] = rpc[p]
  BY Zenon, <1>0, <1>1, GoStep
<1>2. ASSUME NEW q \in Rpc, NEW to, Goto(q, to), to \notin Drop PROVE rpc'[p] = rpc[p]
  BY Zenon, <1>0, <1>2, GotoStep
<1>3. ASSUME NEW q \in Rpc, Fail(q) PROVE rpc'[p] = rpc[p]
  BY Zenon, <1>0, <1>3, FailStep
<1>4. ASSUME NEW q \in Rpc, Publish(q) PROVE rpc'[p] = rpc[p]
  <2>1. rpc[q] \in RpcFields
    BY Zenon, RpcType DEF RpcState
  <2>2. \E r : Go(q, r) /\ r.pc \notin Drop
    <3>1. CASE Go(q, Idle)
      BY Zenon, <1>0, <3>1
    <3>2. ASSUME NEW all,
                 Go(q, [rpc[q] EXCEPT !.pc = "new session", !.want = @ - 1, !.made = all])
          PROVE  \E r : Go(q, r) /\ r.pc \notin Drop
      <4>1. [rpc[q] EXCEPT !.pc = "new session", !.want = @ - 1, !.made = all].pc = "new session"
        BY Zenon, <2>1 DEF RpcFields
      <4> QED BY Zenon, <3>2, <4>1
    <3> QED BY Zenon, <1>4, <3>1, <3>2 DEF Publish
  <2> QED BY Zenon, <1>1, <2>2
<1>5. ASSUME NEW q \in Rpc, Request(q)
      PROVE  \/ rpc'[p] = rpc[p]
             \/ p = q /\ \E u \in Uri : ReleaseDatabase(p, u)
  <2>1. ASSUME NEW u \in Uri, NEW d, CreateDatabase(q, u, d) PROVE rpc'[p] = rpc[p]
    <3>1. [Idle EXCEPT !.pc = "create operation", !.db = d, !.op = Generated].pc \notin Drop
      BY Zenon DEF Idle
    <3> QED BY Zenon, <1>1, <2>1, <3>1 DEF CreateDatabase
  <2>2. ASSUME NEW u \in Uri, NEW id, UpdateDatabaseDdl(q, u, id) PROVE rpc'[p] = rpc[p]
    <3>1. [Idle EXCEPT !.pc = "update schema", !.uri = u, !.op = id].pc \notin Drop
      BY Zenon DEF Idle
    <3> QED BY Zenon, <1>1, <2>2, <3>1 DEF UpdateDatabaseDdl
  <2>3. ASSUME NEW u \in Uri, NEW kind, NEW n, CreateSessions(q, u, kind, n)
        PROVE  rpc'[p] = rpc[p]
    <3>1. [Idle EXCEPT !.pc = "new session", !.db = registered[u], !.kind = kind,
                       !.want = n].pc \notin Drop
      BY Zenon DEF Idle
    <3> QED BY Zenon, <1>1, <2>3, <3>1 DEF CreateSessions
  <2>4. ASSUME NEW s, GetSession(q, s) PROVE rpc'[p] = rpc[p]
    <3>1. [Idle EXCEPT !.pc = "using", !.sid = s].pc \notin Drop
      BY Zenon DEF Idle
    <3> QED BY Zenon, <1>1, <2>4, <3>1 DEF GetSession
  <2>5. ASSUME NEW u \in Uri, ReleaseDatabase(q, u) PROVE p = q \/ rpc'[p] = rpc[p]
    BY Zenon, <2>5, GoStep DEF ReleaseDatabase
  <2> QED BY Zenon, <1>5, <2>1, <2>2, <2>3, <2>4, <2>5 DEF Request
<1>6. ASSUME NEW q \in Rpc, Step(q)
      PROVE  \/ rpc'[p] = rpc[p]
             \/ p = q /\ (DeleteDatabaseSessions(p) \/ RemoveDatabaseTransactions(p))
  <2>1. CASE \/ CreateDatabaseOperation(q) \/ DeleteDatabaseOperations(q)
             \/ AddToCurrentTransactions(q) \/ EndRequest(q)
    BY Zenon, <1>0, <1>1, <2>1 DEF CreateDatabaseOperation, DeleteDatabaseOperations,
       AddToCurrentTransactions, EndRequest
  <2>2. CASE CreateSession(q) \/ Reserve(q) \/ FinishCopy(q) \/ UndoCopy(q)
    BY Zenon, <1>2, <1>3, <1>4, <2>2 DEF CreateSession, Reserve, FinishCopy, UndoCopy
  <2>3. CASE DeleteDatabaseSessions(q) \/ RemoveDatabaseTransactions(q)
    <3>1. \E to : Goto(q, to)
      BY Zenon, <2>3 DEF DeleteDatabaseSessions, RemoveDatabaseTransactions
    <3>2. p # q => rpc'[p] = rpc[p]
      BY Zenon, <3>1, GotoStep
    <3> QED BY Zenon, <2>3, <3>2
  <2>4. CASE UpdateSchema(q)
    <3>1. rpc[q] \in RpcFields
      BY Zenon, RpcType DEF RpcState
    <3>2. \A d : [rpc[q] EXCEPT !.pc = "create operation", !.db = d].pc \notin Drop
      BY Zenon, <3>1 DEF RpcFields
    <3> QED BY Zenon, <1>0, <1>1, <2>4, <3>2 DEF UpdateSchema
  <2>5. CASE Cleanup(q)
    <3>1. rpc[q] \in RpcFields /\ rpc[q].pc = "cleanup"
      BY Zenon, <2>5, RpcType DEF RpcState, Cleanup, At
    <3>2. \A s : [rpc[q] EXCEPT !.made = @ \ {s}].pc \notin Drop
      BY Zenon, <3>1 DEF RpcFields
    <3> QED BY Zenon, <1>0, <1>1, <2>5, <3>2 DEF Cleanup
  <2> QED BY Zenon, <1>6, <2>1, <2>2, <2>3, <2>4, <2>5 DEF Step
<1>7. CASE \E o \in operations : DeleteOperation(o)
  BY Zenon, <1>7 DEF DeleteOperation
<1>8. CASE \E s \in Sid : DeleteSession(s) \/ Expire(s) \/ Destroy(s)
  BY Zenon, <1>8 DEF DeleteSession, Expire, Destroy, DestroyCopy, ReleaseReservation
<1>9. CASE Sweep \/ \E u \in Uri, t \in TxnId : ClearOldTransactions(u, t)
  BY Zenon, <1>9 DEF Sweep, StartSweep, FinishSweep, ClearOldTransactions
<1>10. CASE UNCHANGED vars
  BY Zenon, <1>10 DEF vars
<1> QED BY Zenon, <1>5, <1>6, <1>7, <1>8, <1>9, <1>10 DEF Next

\* A drop returns with its last step.
LEMMA FinishedSteps ==
  ASSUME [Next]_vars, NEW d \in finished', d \notin finished
  PROVE  \E p \in Rpc : DeleteDatabaseOperations(p) /\ d = rpc[p].db
<1> USE DEF dbVars, sessionVars, muxVars
<1>1. ASSUME NEW p \in Rpc, Request(p) PROVE finished' = finished
  <2>1. ASSUME NEW u \in Uri, NEW x, CreateDatabase(p, u, x) PROVE finished' = finished
    BY <2>1 DEF CreateDatabase
  <2>2. ASSUME NEW u \in Uri, NEW id, UpdateDatabaseDdl(p, u, id) PROVE finished' = finished
    BY <2>2 DEF UpdateDatabaseDdl
  <2>3. ASSUME NEW u \in Uri, NEW k, NEW n, CreateSessions(p, u, k, n)
        PROVE  finished' = finished
    BY <2>3 DEF CreateSessions
  <2>4. ASSUME NEW s, GetSession(p, s) PROVE finished' = finished
    BY <2>4 DEF GetSession
  <2>5. ASSUME NEW u \in Uri, ReleaseDatabase(p, u) PROVE finished' = finished
    BY <2>5 DEF ReleaseDatabase
  <2> QED BY <1>1, <2>1, <2>2, <2>3, <2>4, <2>5 DEF Request
<1>2. ASSUME NEW p \in Rpc, Step(p)
      PROVE  finished' = finished \/ DeleteDatabaseOperations(p)
  BY Zenon, <1>2 DEF Step, UpdateSchema, CreateDatabaseOperation, DeleteDatabaseSessions,
     RemoveDatabaseTransactions, CreateSession, Reserve, FinishCopy, UndoCopy, Cleanup,
     AddToCurrentTransactions, EndRequest
<1>3. CASE \E o \in operations : DeleteOperation(o)
  BY <1>3 DEF DeleteOperation
<1>4. CASE \E s \in Sid : DeleteSession(s) \/ Expire(s) \/ Destroy(s)
  BY Zenon, <1>4 DEF DeleteSession, Expire, Destroy, DestroyCopy, ReleaseReservation
<1>5. CASE Sweep \/ \E u \in Uri, t \in TxnId : ClearOldTransactions(u, t)
  BY Zenon, <1>5 DEF Sweep, StartSweep, FinishSweep, ClearOldTransactions
<1>6. CASE UNCHANGED vars
  BY <1>6 DEF vars
<1>7. ASSUME NEW p \in Rpc, DeleteDatabaseOperations(p) PROVE d = rpc[p].db
  BY Zenon, <1>7 DEF DeleteDatabaseOperations
<1> QED BY <1>1, <1>2, <1>3, <1>4, <1>5, <1>6, <1>7 DEF Next

\* A drop takes everything of its database away, one manager after the other,
\* while requests that found the database go on.
LEMMA DropStep ==
  ASSUME LifecycleTypeOK, DropInv, [Next]_vars
  PROVE  DropInv'
<1>0. /\ finished \subseteq dropped
      /\ \A d \in finished : NoSessions(d) /\ NoTransactions(d) /\ NoOperations(d)
  BY Zenon DEF DropInv, NothingOutlivesDrop, NoSessions, NoTransactions, NoOperations
<1>1. ASSUME NEW p \in Rpc, NEW d, d = rpc'[p].db,
             rpc'[p].pc \in {"drop sessions", "drop transactions", "drop operations"}
      PROVE  /\ d \in dropped'
             /\ rpc'[p].pc \in {"drop transactions", "drop operations"} => NoSessions(d)'
             /\ rpc'[p].pc = "drop operations" => NoTransactions(d)'
  <2>1. CASE rpc'[p] = rpc[p]
    <3>1. /\ d \in dropped
          /\ rpc[p].pc \in {"drop transactions", "drop operations"} => NoSessions(d)
          /\ rpc[p].pc = "drop operations" => NoTransactions(d)
      BY Zenon, <1>1, <2>1 DEF DropInv
    <3>2. /\ d \in dropped'
          /\ rpc[p].pc \in {"drop transactions", "drop operations"} => NoSessions(d)'
          /\ rpc[p].pc = "drop operations" => NoTransactions(d)'
      BY Zenon, <3>1, DroppedStaysEmpty
    <3> QED BY Zenon, <2>1, <3>2
  <2>2. ASSUME NEW u \in Uri, ReleaseDatabase(p, u)
        PROVE  rpc'[p].pc = "drop sessions" /\ d \in dropped'
    <3>1. rpc'[p] = [Idle EXCEPT !.pc = "drop sessions", !.db = registered[u]]
      BY <2>2, GoStep DEF ReleaseDatabase
    <3>2. rpc'[p].pc = "drop sessions" /\ d = registered[u]
      BY <1>1, <3>1 DEF Idle
    <3> QED BY Zenon, <2>2, <3>2 DEF ReleaseDatabase
  <2>3. CASE DeleteDatabaseSessions(p)
    <3>1. rpc'[p].pc = "drop transactions" /\ d = rpc[p].db
      BY Zenon, <1>1, <2>3, GotoStep DEF DeleteDatabaseSessions
    <3>2. d \in dropped
      BY Zenon, <2>3, <3>1 DEF DropInv, DeleteDatabaseSessions, At
    <3>3. d \in dropped' /\ NoSessions(d)'
      BY Zenon, <2>3, <3>1, <3>2 DEF DeleteDatabaseSessions, dbVars, NoSessions
    <3> QED BY Zenon, <3>1, <3>3
  <2>4. CASE RemoveDatabaseTransactions(p)
    <3>1. rpc'[p].pc = "drop operations" /\ d = rpc[p].db
      BY Zenon, <1>1, <2>4, GotoStep DEF RemoveDatabaseTransactions
    <3>2. d \in dropped /\ NoSessions(d)
      BY Zenon, <2>4, <3>1 DEF DropInv, RemoveDatabaseTransactions, At
    <3>3. d \in dropped' /\ NoSessions(d)'
      BY <3>2, DroppedStaysEmpty
    <3>4. d # None
      BY <3>2, LifecycleAssumption DEF LifecycleTypeOK
    <3>5. NoTransactions(d)'
      BY Zenon, <2>4, <3>1, <3>4 DEF RemoveDatabaseTransactions, NoTransactions, LifecycleTypeOK
    <3> QED BY <3>3, <3>5
  <2> QED BY Zenon, <1>1, <2>1, <2>2, <2>3, <2>4, DropPhases
<1>2. ASSUME NEW d \in finished'
      PROVE  d \in dropped' /\ NoSessions(d)' /\ NoTransactions(d)' /\ NoOperations(d)'
  <2>1. CASE d \in finished
    <3>1. d \in dropped /\ NoSessions(d) /\ NoTransactions(d) /\ NoOperations(d)
      BY <1>0, <2>1
    <3> QED BY <3>1, DroppedStaysEmpty
  <2>2. CASE d \notin finished
    <3>1. PICK p \in Rpc : DeleteDatabaseOperations(p) /\ d = rpc[p].db
      BY <1>2, <2>2, FinishedSteps
    <3>2. d \in dropped /\ NoSessions(d) /\ NoTransactions(d)
      BY Zenon, <3>1 DEF DropInv, DeleteDatabaseOperations, At
    <3>3. d \in dropped' /\ NoSessions(d)' /\ NoTransactions(d)'
      BY <3>2, DroppedStaysEmpty
    <3>4. NoOperations(d)'
      BY Zenon, <3>1 DEF DeleteDatabaseOperations, NoOperations
    <3> QED BY <3>3, <3>4
  <2> QED BY <2>1, <2>2
<1>3. NothingOutlivesDrop' /\ finished' \subseteq dropped'
  BY <1>2 DEF NothingOutlivesDrop, NoSessions, NoTransactions, NoOperations
<1>4. ASSUME NEW p \in Rpc
      PROVE  /\ rpc'[p].pc \in {"drop sessions", "drop transactions", "drop operations"} =>
                  rpc'[p].db \in dropped'
             /\ rpc'[p].pc \in {"drop transactions", "drop operations"} =>
                  \A s \in inMap' : session'[s].db # rpc'[p].db
             /\ rpc'[p].pc = "drop operations" => \A e \in DOMAIN mux' : mux'[e] # rpc'[p].db
  BY Zenon, <1>1 DEF NoSessions, NoTransactions
<1> QED BY Zenon, <1>3, <1>4 DEF DropInv, NoSessions, NoTransactions

--------------------------------------------------------------------------------
(* Sessions: new ones are fresh, and known to one request until it returns *)

\* The id of a new session follows those in use.
LEMMA NewSidIsFresh ==
  ASSUME LifecycleTypeOK, FreshInv, NEW n \in 0..MaxSid,
         \A s \in Sid : session[s].life # "new" <=> s <= n
  PROVE  NewSid = n + 1
<1>1. MaxSid \in Nat
  BY LifecycleAssumption
<1>2. {s \in Sid : session[s].life # "new"} = 1..n
  BY <1>1 DEF Sid
<1>3. Cardinality(1..n) = n
  <2>1. 1 \in Int /\ n \in Int /\ n >= 0
    BY <1>1
  <2>2. Cardinality(1..n) = IF 1 > n THEN 0 ELSE n - 1 + 1
    BY <2>1, FS_Interval
  <2> QED BY <2>1, <2>2
<1> QED BY Zenon, <1>2, <1>3 DEF NewSid

\* What Publish does: the session is new, and the request keeps it to itself
\* unless it returns.
LEMMA PublishStep ==
  ASSUME LifecycleTypeOK, FreshInv, NEW p \in Rpc, Publish(p)
  PROVE  \E s \in Sid :
           /\ session[s].life = "new"
           /\ \E n \in 0..MaxSid : \A x \in Sid : session'[x].life # "new" <=> x <= n
           /\ session'[s].life = "alive" /\ ~session'[s].stale
           /\ session'[s].db = rpc[p].db /\ session'[s].kind = rpc[p].kind
           /\ \A x \in Sid : x # s => session'[x] = session[x]
           /\ inMap' = inMap \cup {s}
           /\ \A q \in Rpc : q # p => rpc'[q] = rpc[q]
           /\ \/ /\ rpc'[p].pc = "idle" /\ rpc'[p].made = {}
                 /\ returned' = returned \cup rpc[p].made \cup {s}
              \/ /\ rpc'[p].pc = "new session" /\ rpc'[p].kind = rpc[p].kind
                 /\ rpc'[p].made = rpc[p].made \cup {s}
                 /\ returned' = returned
<1>1. PICK n \in 0..MaxSid : \A s \in Sid : session[s].life # "new" <=> s <= n
  BY DEF FreshInv
<1>2. PICK s \in Sid : s = NewSid /\ s = n + 1
  BY <1>1, NewSidIsFresh DEF Publish
<1> DEFINE all == rpc[p].made \cup {s}
           new == [db |-> rpc[p].db, kind |-> rpc[p].kind, stale |-> FALSE, life |-> "alive"]
<1>3. /\ session' = [session EXCEPT ![s] = new] /\ inMap' = inMap \cup {s}
      /\ \/ Go(p, Idle) /\ returned' = returned \cup all
         \/ /\ Go(p, [rpc[p] EXCEPT !.pc = "new session", !.want = @ - 1, !.made = all])
            /\ returned' = returned
  BY <1>2 DEF Publish
<1>4. MaxSid \in Nat /\ n \in Nat /\ n + 1 <= MaxSid
  BY <1>2, LifecycleAssumption DEF Sid
<1>5. session[s].life = "new"
  BY <1>1, <1>2, <1>4
<1>6. session'[s] = new /\ \A x \in Sid : x # s => session'[x] = session[x]
  BY <1>3 DEF LifecycleTypeOK
<1>7. n + 1 \in 0..MaxSid /\ \A x \in Sid : session'[x].life # "new" <=> x <= n + 1
  <2>1. \A x \in Sid : x # s => (session'[x].life # "new" <=> x <= n + 1)
    BY <1>1, <1>2, <1>4, <1>6 DEF Sid
  <2>2. session'[s].life = "alive"
    BY <1>6
  <2> QED BY <1>2, <1>4, <2>1, <2>2
<1>8. /\ \A q \in Rpc : q # p => rpc'[q] = rpc[q]
      /\ \/ rpc'[p] = Idle /\ returned' = returned \cup all
         \/ /\ rpc'[p] = [rpc[p] EXCEPT !.pc = "new session", !.want = @ - 1, !.made = all]
            /\ returned' = returned
  BY <1>3, GoStep
<1>9. rpc[p] \in RpcFields
  BY Zenon, RpcType DEF RpcState
<1>10. \/ /\ rpc'[p].pc = "idle" /\ rpc'[p].made = {}
          /\ returned' = returned \cup rpc[p].made \cup {s}
       \/ /\ rpc'[p].pc = "new session" /\ rpc'[p].kind = rpc[p].kind
          /\ rpc'[p].made = rpc[p].made \cup {s}
          /\ returned' = returned
  <2>1. CASE rpc'[p] = Idle /\ returned' = returned \cup all
    BY <2>1 DEF Idle
  <2>2. CASE /\ rpc'[p] = [rpc[p] EXCEPT !.pc = "new session", !.want = @ - 1, !.made = all]
             /\ returned' = returned
    BY <1>9, <2>2 DEF RpcFields
  <2> QED BY Zenon, <1>8, <2>1, <2>2
<1>11. inMap' = inMap \cup {s}
  BY <1>3
<1>12. /\ session'[s].life = "alive" /\ ~session'[s].stale
       /\ session'[s].db = rpc[p].db /\ session'[s].kind = rpc[p].kind
  BY <1>6
<1> HIDE DEF new, all
<1> QED BY Zenon, <1>5, <1>6, <1>7, <1>8, <1>10, <1>11, <1>12

MakingPhases == {"new session", "copying", "release", "cleanup"}

\* Apart from Publish and Cleanup, no step changes what requests have made.
LEMMA MadeKept ==
  ASSUME LifecycleTypeOK, MadeInv, [Next]_vars, NEW q \in Rpc,
         ~\E p \in Rpc : Publish(p) \/ Cleanup(p)
  PROVE  /\ rpc'[q].made = rpc[q].made
         /\ rpc'[q].made # {} => rpc'[q].pc \in MakingPhases
<1> DEFINE Goal == /\ rpc'[q].made = rpc[q].made
                   /\ rpc'[q].made # {} => rpc'[q].pc \in MakingPhases
<1>0. /\ Idle.made = {}
      /\ \A p \in Rpc : rpc[p].made # {} => rpc[p].pc \in MakingPhases
  BY Zenon DEF Idle, MadeInv, MakingPhases
<1>1. ASSUME rpc'[q] = rpc[q] PROVE Goal
  BY <1>0, <1>1
<1>2. ASSUME NEW p \in Rpc, NEW r, Go(p, r), rpc[p].pc \notin MakingPhases, r.made = {}
      PROVE  Goal
  <2>1. CASE p = q
    BY Zenon, <1>0, <1>2, <2>1, GoStep
  <2>2. CASE p # q
    BY <1>1, <1>2, <2>2, GoStep
  <2> QED BY <2>1, <2>2
<1>3. ASSUME NEW p \in Rpc, Fail(p) PROVE Goal
  <2>1. CASE p = q
    BY Zenon, <1>3, <2>1, FailStep DEF MakingPhases
  <2>2. CASE p # q
    BY <1>1, <1>3, <2>2, FailStep
  <2> QED BY <2>1, <2>2
<1>4. ASSUME NEW p \in Rpc, NEW to, Goto(p, to), to \in MakingPhases \/ rpc[p].pc \notin MakingPhases
      PROVE  Goal
  <2>1. CASE p = q
    BY <1>0, <1>4, <2>1, GotoStep
  <2>2. CASE p # q
    BY <1>1, <1>4, <2>2, GotoStep
  <2> QED BY <2>1, <2>2
<1> HIDE DEF Goal
<1>5. ASSUME NEW p \in Rpc, Request(p) PROVE Goal
  <2>0. At(p, "idle") => rpc[p].pc \notin MakingPhases
    BY DEF At, MakingPhases
  <2>1. ASSUME NEW u \in Uri, NEW d, CreateDatabase(p, u, d) PROVE Goal
    <3>1. [Idle EXCEPT !.pc = "create operation", !.db = d, !.op = Generated].made = {}
      BY DEF Idle
    <3> QED BY Zenon, <1>2, <2>0, <2>1, <3>1 DEF CreateDatabase
  <2>2. ASSUME NEW u \in Uri, NEW id, UpdateDatabaseDdl(p, u, id) PROVE Goal
    <3>1. [Idle EXCEPT !.pc = "update schema", !.uri = u, !.op = id].made = {}
      BY DEF Idle
    <3> QED BY Zenon, <1>2, <2>0, <2>2, <3>1 DEF UpdateDatabaseDdl
  <2>3. ASSUME NEW u \in Uri, NEW kind, NEW n, CreateSessions(p, u, kind, n) PROVE Goal
    <3>1. [Idle EXCEPT !.pc = "new session", !.db = registered[u], !.kind = kind,
                       !.want = n].made = {}
      BY DEF Idle
    <3> QED BY Zenon, <1>2, <2>0, <2>3, <3>1 DEF CreateSessions
  <2>4. ASSUME NEW s, GetSession(p, s) PROVE Goal
    <3>1. [Idle EXCEPT !.pc = "using", !.sid = s].made = {}
      BY DEF Idle
    <3> QED BY Zenon, <1>1, <1>2, <2>0, <2>4, <3>1 DEF GetSession
  <2>5. ASSUME NEW u \in Uri, ReleaseDatabase(p, u) PROVE Goal
    <3>1. [Idle EXCEPT !.pc = "drop sessions", !.db = registered[u]].made = {}
      BY DEF Idle
    <3> QED BY Zenon, <1>2, <2>0, <2>5, <3>1 DEF ReleaseDatabase
  <2> QED BY <1>5, <2>1, <2>2, <2>3, <2>4, <2>5 DEF Request
<1>6. ASSUME NEW p \in Rpc, Step(p) PROVE Goal
  <2>1. CASE \/ CreateDatabaseOperation(p) \/ DeleteDatabaseOperations(p)
             \/ AddToCurrentTransactions(p) \/ EndRequest(p)
    <3>1. Go(p, Idle) /\ rpc[p].pc \notin MakingPhases
      BY Zenon, <2>1 DEF CreateDatabaseOperation, DeleteDatabaseOperations,
         AddToCurrentTransactions, EndRequest, At, MakingPhases
    <3> QED BY Zenon, <1>0, <1>2, <3>1
  <2>2. CASE CreateSession(p) \/ Reserve(p) \/ FinishCopy(p) \/ UndoCopy(p)
    <3>1. Fail(p) \/ \E to \in MakingPhases : Goto(p, to)
      BY Zenon, <2>2 DEF CreateSession, Reserve, FinishCopy, UndoCopy, MakingPhases
    <3> QED BY <1>3, <1>4, <3>1
  <2>3. CASE DeleteDatabaseSessions(p) \/ RemoveDatabaseTransactions(p)
    <3>1. rpc[p].pc \notin MakingPhases /\ \E to : Goto(p, to)
      BY Zenon, <2>3 DEF DeleteDatabaseSessions, RemoveDatabaseTransactions, At, MakingPhases
    <3> QED BY <1>4, <3>1
  <2>4. CASE UpdateSchema(p)
    <3>1. rpc[p] \in RpcFields /\ rpc[p].pc \notin MakingPhases
      BY Zenon, <2>4, RpcType DEF RpcState, UpdateSchema, At, MakingPhases
    <3>2. \A d : [rpc[p] EXCEPT !.pc = "create operation", !.db = d].made = {}
      BY <1>0, <3>1 DEF RpcFields
    <3> QED BY Zenon, <1>0, <1>2, <2>4, <3>1, <3>2 DEF UpdateSchema
  <2> QED BY <1>6, <2>1, <2>2, <2>3, <2>4 DEF Step
<1>7. ASSUME \E o \in operations : DeleteOperation(o) PROVE Goal
  BY <1>1, <1>7 DEF DeleteOperation
<1>8. ASSUME \E s \in Sid : DeleteSession(s) \/ Expire(s) \/ Destroy(s) PROVE Goal
  BY Zenon, <1>1, <1>8 DEF DeleteSession, Expire, Destroy, DestroyCopy, ReleaseReservation
<1>9. ASSUME Sweep \/ \E u \in Uri, t \in TxnId : ClearOldTransactions(u, t) PROVE Goal
  BY Zenon, <1>1, <1>9 DEF Sweep, StartSweep, FinishSweep, ClearOldTransactions
<1>10. ASSUME UNCHANGED vars PROVE Goal
  BY <1>1, <1>10 DEF vars
<1>11. Goal
  BY <1>5, <1>6, <1>7, <1>8, <1>9, <1>10 DEF Next
<1> QED BY <1>11 DEF Goal

\* What Cleanup does.
LEMMA CleanupStep ==
  ASSUME LifecycleTypeOK, NEW p \in Rpc, Cleanup(p)
  PROVE  /\ session' = session /\ returned' = returned
         /\ \A q \in Rpc : q # p => rpc'[q] = rpc[q]
         /\ rpc'[p].made # {} => rpc'[p].pc = "cleanup"
         /\ \E s \in rpc[p].made : /\ inMap' = inMap \ {s}
                                   /\ rpc'[p].made = rpc[p].made \ {s}
<1>1. PICK s \in rpc[p].made :
        /\ inMap' = inMap \ {s}
        /\ Go(p, IF rpc[p].made = {s} THEN Idle ELSE [rpc[p] EXCEPT !.made = @ \ {s}])
  BY DEF Cleanup
<1>2. /\ rpc'[p] = IF rpc[p].made = {s} THEN Idle ELSE [rpc[p] EXCEPT !.made = @ \ {s}]
      /\ \A q \in Rpc : q # p => rpc'[q] = rpc[q]
  BY <1>1, GoStep
<1>3. session' = session /\ returned' = returned /\ rpc[p].pc = "cleanup"
  BY DEF Cleanup, At
<1>4. rpc'[p].made = rpc[p].made \ {s} /\ (rpc'[p].made # {} => rpc'[p].pc = "cleanup")
  <2>1. CASE rpc[p].made = {s}
    BY <1>2, <2>1 DEF Idle
  <2>2. CASE rpc[p].made # {s}
    <3>1. rpc[p] \in RpcFields
      BY Zenon, RpcType DEF RpcState
    <3> QED BY <1>2, <1>3, <2>2, <3>1 DEF RpcFields
  <2> QED BY <2>1, <2>2
<1> QED BY <1>1, <1>2, <1>3, <1>4

\* Ids are given out in order, and a session is known only after it is made.
LEMMA FreshStep ==
  ASSUME LifecycleTypeOK, FreshInv, MadeInv, [Next]_vars
  PROVE  FreshInv'
<1>1. ASSUME NEW p \in Rpc, Publish(p) PROVE FreshInv'
  <2>1. PICK s \in Sid :
           /\ session[s].life = "new"
           /\ \E n \in 0..MaxSid : \A x \in Sid : session'[x].life # "new" <=> x <= n
           /\ session'[s].life = "alive" /\ ~session'[s].stale
           /\ session'[s].db = rpc[p].db /\ session'[s].kind = rpc[p].kind
           /\ \A x \in Sid : x # s => session'[x] = session[x]
           /\ inMap' = inMap \cup {s}
           /\ \A q \in Rpc : q # p => rpc'[q] = rpc[q]
           /\ \/ /\ rpc'[p].pc = "idle" /\ rpc'[p].made = {}
                 /\ returned' = returned \cup rpc[p].made \cup {s}
              \/ /\ rpc'[p].pc = "new session" /\ rpc'[p].kind = rpc[p].kind
                 /\ rpc'[p].made = rpc[p].made \cup {s}
                 /\ returned' = returned
    BY Zenon, <1>1, PublishStep
  <2>2. session'[s].life # "new"
    BY Zenon, <2>1
  <2>3. ASSUME NEW x \in Sid, x = s \/ session[x].life # "new" PROVE session'[x].life # "new"
    BY Zenon, <2>1, <2>2, <2>3
  <2>4. /\ inMap \subseteq Sid /\ returned \subseteq Sid
        /\ \A q \in Rpc : rpc[q].made \subseteq Sid
    BY RpcType DEF LifecycleTypeOK
  <2>5. \A x \in inMap' \cup returned' : session'[x].life # "new"
    BY Zenon, <2>1, <2>3, <2>4 DEF FreshInv
  <2>6. \A q \in Rpc : \A x \in rpc'[q].made : session'[x].life # "new"
    <3>1. ASSUME NEW q \in Rpc PROVE rpc'[q].made \subseteq rpc[q].made \cup {s}
      BY Zenon, <2>1
    <3>2. \A q \in Rpc : \A x \in rpc[q].made : session[x].life # "new"
      BY DEF FreshInv
    <3> QED BY <2>3, <2>4, <3>1, <3>2
  <2> QED BY Zenon, <2>1, <2>5, <2>6 DEF FreshInv
<1>2. ASSUME NEW p \in Rpc, Cleanup(p) PROVE FreshInv'
  BY <1>2, CleanupStep DEF FreshInv
<1>3. CASE ~\E p \in Rpc : Publish(p) \/ Cleanup(p)
  <2>1. inMap' \subseteq inMap /\ returned' = returned /\ \A s \in Sid : Kept(s)
    BY <1>3, SessionSteps
  <2>2. \A q \in Rpc : rpc'[q].made = rpc[q].made
    BY <1>3, MadeKept
  <2>3. /\ inMap \subseteq Sid /\ returned \subseteq Sid
        /\ \A q \in Rpc : rpc[q].made \subseteq Sid
    BY RpcType DEF LifecycleTypeOK
  <2>4. \A s \in Sid : session'[s].life = "new" <=> session[s].life = "new"
    BY <2>1 DEF Kept
  <2> QED BY <2>1, <2>2, <2>3, <2>4 DEF FreshInv
<1> QED BY <1>1, <1>2, <1>3

\* A request's sessions are its own until it returns them all or deletes them.
LEMMA MadeStep ==
  ASSUME LifecycleTypeOK, FreshInv, MadeInv, [Next]_vars
  PROVE  MadeInv'
<1>0. \A p \in Rpc : rpc[p].made # {} => rpc[p].pc \in MakingPhases
  BY Zenon DEF MadeInv, MakingPhases
<1>1. ASSUME NEW p \in Rpc, Publish(p) PROVE MadeInv'
  <2>1. PICK s \in Sid :
           /\ session[s].life = "new"
           /\ inMap' = inMap \cup {s}
           /\ \A q \in Rpc : q # p => rpc'[q] = rpc[q]
           /\ \/ /\ rpc'[p].pc = "idle" /\ rpc'[p].made = {}
                 /\ returned' = returned \cup rpc[p].made \cup {s}
              \/ /\ rpc'[p].pc = "new session"
                 /\ rpc'[p].made = rpc[p].made \cup {s}
                 /\ returned' = returned
    BY Zenon, <1>1, PublishStep
  <2>2. s \notin returned /\ \A q \in Rpc : s \notin rpc[q].made
    BY Zenon, <2>1 DEF FreshInv
  <2>4. \A q \in Rpc : rpc'[q].made # {} => rpc'[q].pc \in MakingPhases
    BY Zenon, <1>0, <2>1 DEF MakingPhases
  <2>3. /\ \A q \in Rpc : \A x \in rpc[q].made : x \notin returned
        /\ \A q, r \in Rpc : \A x \in rpc[q].made : x \in rpc[r].made => q = r
    BY Zenon DEF MadeInv
  <2>5. ASSUME NEW q \in Rpc, NEW x \in rpc'[q].made PROVE x \notin returned'
    <3>1. CASE q = p
      <4>1. x \in rpc[p].made \cup {s} /\ returned' = returned
        BY Zenon, <2>1, <2>5, <3>1
      <4> QED BY <2>2, <2>3, <4>1
    <3>2. CASE q # p
      <4>1. x \in rpc[q].made /\ returned' \subseteq returned \cup rpc[p].made \cup {s}
        BY Zenon, <2>1, <2>5, <3>2
      <4> QED BY <2>2, <2>3, <3>2, <4>1
    <3> QED BY <3>1, <3>2
  <2>6. \A q, r \in Rpc : \A x \in rpc'[q].made : x \in rpc'[r].made => q = r
    <3>1. rpc'[p].made \subseteq rpc[p].made \cup {s}
      BY Zenon, <2>1
    <3>2. \A q \in Rpc : q # p => rpc'[q].made = rpc[q].made
      BY Zenon, <2>1
    <3> QED BY <2>2, <2>3, <3>1, <3>2
  <2>7. SessionsAreReturned'
    <3>1. \A x \in inMap : x \in returned \/ \E q \in Rpc : x \in rpc[q].made
      BY Zenon DEF MadeInv, SessionsAreReturned
    <3> QED BY Zenon, <2>1, <3>1 DEF SessionsAreReturned
  <2> QED BY Zenon, <2>4, <2>5, <2>6, <2>7 DEF MadeInv, MakingPhases
<1>2. ASSUME NEW p \in Rpc, Cleanup(p) PROVE MadeInv'
  <2>1. PICK s \in rpc[p].made : inMap' = inMap \ {s} /\ rpc'[p].made = rpc[p].made \ {s}
    BY <1>2, CleanupStep
  <2>2. /\ returned' = returned
        /\ \A q \in Rpc : q # p => rpc'[q] = rpc[q]
        /\ rpc'[p].made # {} => rpc'[p].pc = "cleanup"
    BY <1>2, CleanupStep
  <2>3. \A q \in Rpc : rpc'[q].made # {} => rpc'[q].pc \in MakingPhases
    BY Zenon, <1>0, <2>2 DEF MakingPhases
  <2>4. \A q \in Rpc : rpc'[q].made \subseteq rpc[q].made
    BY <2>1, <2>2
  <2>5. SessionsAreReturned'
    <3>1. \A x \in inMap : x \in returned \/ \E q \in Rpc : x \in rpc[q].made
      BY Zenon DEF MadeInv, SessionsAreReturned
    <3> QED BY <2>1, <2>2, <3>1 DEF SessionsAreReturned
  <2> QED BY Zenon, <2>2, <2>3, <2>4, <2>5 DEF MadeInv, MakingPhases
<1>3. CASE ~\E p \in Rpc : Publish(p) \/ Cleanup(p)
  <2>1. inMap' \subseteq inMap /\ returned' = returned
    BY <1>3, SessionSteps
  <2>2. \A q \in Rpc : /\ rpc'[q].made = rpc[q].made
                       /\ rpc'[q].made # {} => rpc'[q].pc \in MakingPhases
    BY <1>3, MadeKept
  <2> QED BY Zenon, <2>1, <2>2 DEF MadeInv, SessionsAreReturned, MakingPhases
<1> QED BY <1>1, <1>2, <1>3

\* A sweep starts with what is expired, and expired sessions stay so.
LEMMA SweepStep ==
  ASSUME LifecycleTypeOK, FreshInv, SweepInv, [Next]_vars
  PROVE  SweepInv'
<1>1. sweeper' = sweeper \/ sweeper' = None \/ sweeper' = {s \in inMap : session[s].stale}
  <2>1. ASSUME NEW p \in Rpc, Request(p) PROVE sweeper' = sweeper
    BY Zenon, <2>1 DEF Request, CreateDatabase, UpdateDatabaseDdl, CreateSessions, GetSession,
       ReleaseDatabase, sessionVars
  <2>2. ASSUME NEW p \in Rpc, Step(p) PROVE sweeper' = sweeper
    BY Zenon, <2>2 DEF Step, UpdateSchema, CreateDatabaseOperation, DeleteDatabaseSessions,
       RemoveDatabaseTransactions, DeleteDatabaseOperations, CreateSession, Reserve,
       FinishCopy, UndoCopy, Cleanup, AddToCurrentTransactions, EndRequest, sessionVars
  <2>3. CASE \E s \in Sid : DeleteSession(s) \/ Expire(s) \/ Destroy(s)
    BY Zenon, <2>3 DEF DeleteSession, Expire, Destroy, DestroyCopy, ReleaseReservation
  <2>4. CASE Sweep
    BY <2>4 DEF Sweep, StartSweep, FinishSweep
  <2>5. CASE (\E o \in operations : DeleteOperation(o)) \/ UNCHANGED vars
             \/ \E u \in Uri, t \in TxnId : ClearOldTransactions(u, t)
    BY Zenon, <2>5 DEF DeleteOperation, ClearOldTransactions, vars, sessionVars
  <2> QED BY <2>1, <2>2, <2>3, <2>4, <2>5 DEF Next
<1>2. \A s \in Sid : /\ session[s].stale => session'[s].stale
                     /\ session'[s].stale => session'[s].life # "new"
  <2>1. ASSUME NEW p \in Rpc, Publish(p), NEW x \in Sid
        PROVE  /\ session[x].stale => session'[x].stale
               /\ session'[x].stale => session'[x].life # "new"
    <3>1. PICK s \in Sid :
             /\ session[s].life = "new"
             /\ session'[s].life = "alive" /\ ~session'[s].stale
             /\ session'[s].db = rpc[p].db /\ session'[s].kind = rpc[p].kind
             /\ \A y \in Sid : y # s => session'[y] = session[y]
      BY Zenon, <2>1, PublishStep
    <3>2. ~session[s].stale /\ session'[s].life = "alive"
      BY <3>1 DEF SweepInv
    <3>3. CASE x = s
      BY <3>2, <3>3
    <3>4. CASE x # s
      <4>1. session'[x] = session[x]
        BY <3>1, <3>4
      <4> QED BY <4>1 DEF SweepInv
    <3> QED BY <3>3, <3>4
  <2>2. CASE ~\E p \in Rpc : Publish(p)
    <3>1. \A s \in Sid : Kept(s)
      BY <2>2, SessionSteps
    <3>2. inMap \subseteq Sid
      BY DEF LifecycleTypeOK
    <3> QED BY <3>1, <3>2, Zenon DEF Kept, SweepInv, FreshInv
  <2> QED BY <2>1, <2>2
<1>3. inMap \subseteq Sid
  BY DEF LifecycleTypeOK
<1>4. sweeper' # None => \A s \in sweeper' : s \in Sid /\ session'[s].stale
  <2>1. CASE sweeper' = sweeper
    BY <1>2, <2>1, Zenon DEF SweepInv
  <2>2. CASE sweeper' = {s \in inMap : session[s].stale}
    BY <1>2, <1>3, <2>2, Zenon
  <2> QED BY <1>1, <2>1, <2>2
<1> QED BY <1>2, <1>4, Zenon DEF SweepInv

--------------------------------------------------------------------------------
(* Places for copies *)

CopyPhases == {"copying", "release"}

\* The parts of CopyInv that do not count.
CopyKinds ==
  /\ \A p \in Copying : rpc[p].kind = "ephemeral"
  /\ \A s \in Sid : session[s].life = "copy gone" => session[s].kind = "ephemeral"

\* CopyInv, as a sum.
LEMMA CopySum ==
  /\ CopyInv <=> /\ IsFiniteSet(Copying) /\ CopyKinds
                 /\ used = Cardinality(Copying) + Cardinality(Copies) /\ used <= MaxCopies
  /\ CopyInv' <=> /\ IsFiniteSet(Copying') /\ CopyKinds'
                  /\ used' = Cardinality(Copying') + Cardinality(Copies') /\ used' <= MaxCopies
<1>1. /\ CopiesAreBounded <=> /\ used = Cardinality(Copying) + Cardinality(Copies)
                              /\ used <= MaxCopies
      /\ CopiesAreBounded' <=> /\ used' = Cardinality(Copying') + Cardinality(Copies')
                               /\ used' <= MaxCopies
  BY DEF CopiesAreBounded, Copying, Copies
<1> QED BY Zenon, <1>1 DEF CopyInv, CopyKinds

\* There are finitely many copies, as the number of sessions is bounded.
LEMMA CopiesFinite == IsFiniteSet(Copies) /\ Cardinality(Copies) \in Nat
<1>1. IsFiniteSet(Sid)
  BY FS_Interval, LifecycleAssumption DEF Sid
<1>2. Copies \subseteq Sid
  BY Zenon DEF Copies
<1> QED BY <1>1, <1>2, FS_Subset, FS_CardinalityType

\* A step that leaves the requests' phases and the sessions alone.
LEMMA CopySame ==
  ASSUME CopyInv, CopyKinds', used' = used, Copying' = Copying, Copies' = Copies
  PROVE  CopyInv'
BY CopySum

\* A request that neither has a place nor gets one.
LEMMA NotCopying ==
  ASSUME LifecycleTypeOK, CopyInv, NEW p \in Rpc, rpc[p].pc \notin CopyPhases,
         rpc'[p].pc \notin CopyPhases, \A q \in Rpc : q # p => rpc'[q] = rpc[q]
  PROVE  Copying' = Copying /\ \A q \in Copying' : rpc'[q].kind = "ephemeral"
<1>1. \A q \in Rpc : q \in Copying' <=> q \in Copying
  BY DEF Copying, At, CopyPhases
<1>2. Copying' = Copying /\ p \notin Copying
  BY <1>1 DEF Copying, At, CopyPhases
<1> QED BY Zenon, <1>2 DEF CopyInv, Copying

\* The sessions stay as they are.
LEMMA SessionsSame ==
  ASSUME CopyInv, session' = session
  PROVE  Copies' = Copies
         /\ \A s \in Sid : session'[s].life = "copy gone" => session'[s].kind = "ephemeral"
BY Zenon DEF CopyInv, Copies

\* Reserve takes a place for the copy that a request is going to make.
LEMMA ReserveCopies ==
  ASSUME LifecycleTypeOK, CopyInv, NEW p \in Rpc, Reserve(p)
  PROVE  CopyInv'
<1>0. /\ Copies' = Copies /\ rpc[p].pc = "new session" /\ rpc[p].kind = "ephemeral"
      /\ \A s \in Sid : session'[s].life = "copy gone" => session'[s].kind = "ephemeral"
  BY Zenon, SessionsSame DEF Reserve, At
<1>1. CASE Fail(p) /\ used' = used
  <2>1. rpc'[p].pc \in {"idle", "cleanup"} /\ \A q \in Rpc : q # p => rpc'[q] = rpc[q]
    BY <1>1, FailStep
  <2>2. Copying' = Copying /\ \A q \in Copying' : rpc'[q].kind = "ephemeral"
    BY Zenon, <1>0, <2>1, NotCopying DEF CopyPhases
  <2> QED BY Zenon, <1>0, <1>1, <2>2, CopySame DEF CopyKinds
<1>2. CASE used' = used + 1 /\ Goto(p, "copying") /\ ~(used >= MaxCopies)
  <2>1. /\ rpc'[p].pc = "copying" /\ rpc'[p].kind = rpc[p].kind
        /\ \A q \in Rpc : q # p => rpc'[q] = rpc[q]
    BY <1>2, GotoStep
  <2>2. p \notin Copying /\ Copying' = Copying \cup {p}
    BY Zenon, <1>0, <2>1 DEF Copying, At
  <2>3. CopyKinds'
    BY Zenon, <1>0, <2>1, <2>2 DEF CopyKinds, CopyInv, Copying
  <2>4. IsFiniteSet(Copying) /\ used = Cardinality(Copying) + Cardinality(Copies)
    BY CopySum
  <2>5. IsFiniteSet(Copying') /\ Cardinality(Copying') = Cardinality(Copying) + 1
        /\ Cardinality(Copying) \in Nat
    BY <2>2, <2>4, FS_AddElement, FS_CardinalityType
  <2>6. used \in Int /\ MaxCopies \in Nat /\ Cardinality(Copies) \in Nat
    BY Zenon, CopiesFinite, LifecycleAssumption DEF LifecycleTypeOK
  <2>7. used' = Cardinality(Copying') + Cardinality(Copies') /\ used' <= MaxCopies
    <3>1. Copies' = Copies /\ used' = used + 1 /\ ~(used >= MaxCopies)
      BY Zenon, <1>0, <1>2
    <3> QED BY <2>4, <2>5, <2>6, <3>1
  <2> QED BY <2>3, <2>5, <2>7, CopySum
<1> QED BY Zenon, <1>1, <1>2 DEF Reserve

\* UndoCopy gives the place back.
LEMMA UndoCopies ==
  ASSUME LifecycleTypeOK, CopyInv, NEW p \in Rpc, UndoCopy(p)
  PROVE  CopyInv'
<1>0. /\ Copies' = Copies /\ rpc[p].pc = "release" /\ used' = used - 1 /\ Fail(p)
      /\ \A s \in Sid : session'[s].life = "copy gone" => session'[s].kind = "ephemeral"
  BY Zenon, SessionsSame DEF UndoCopy, At
<1>1. rpc'[p].pc \in {"idle", "cleanup"} /\ \A q \in Rpc : q # p => rpc'[q] = rpc[q]
  BY Zenon, <1>0, FailStep
<1>2. p \in Copying /\ Copying' = Copying \ {p}
  BY Zenon, <1>0, <1>1 DEF Copying, At
<1>3. CopyKinds'
  BY Zenon, <1>0, <1>1, <1>2 DEF CopyKinds, CopyInv, Copying
<1>4. IsFiniteSet(Copying) /\ used = Cardinality(Copying) + Cardinality(Copies)
      /\ used <= MaxCopies
  BY CopySum
<1>5. IsFiniteSet(Copying') /\ Cardinality(Copying') = Cardinality(Copying) - 1
      /\ Cardinality(Copying) \in Nat
  BY <1>2, <1>4, FS_RemoveElement, FS_CardinalityType
<1>6. used \in Int /\ MaxCopies \in Nat /\ Cardinality(Copies) \in Nat
  BY CopiesFinite, LifecycleAssumption DEF LifecycleTypeOK
<1>7. used' = Cardinality(Copying') + Cardinality(Copies') /\ used' <= MaxCopies
  <2>1. Copies' = Copies /\ used' = used - 1
    BY Zenon, <1>0
  <2> QED BY <1>4, <1>5, <1>6, <2>1
<1> QED BY <1>3, <1>5, <1>7, CopySum

\* FinishCopy turns the place of the request into that of the session, or keeps
\* it for the undoing.
LEMMA FinishCopies ==
  ASSUME LifecycleTypeOK, FreshInv, CopyInv, NEW p \in Rpc, FinishCopy(p)
  PROVE  CopyInv'
<1>0. rpc[p].pc = "copying" /\ used' = used /\ p \in Copying /\ rpc[p].kind = "ephemeral"
  BY Zenon DEF FinishCopy, At, Copying, CopyInv
<1>1. CASE Goto(p, "release") /\ session' = session
  <2>1. /\ rpc'[p].pc = "release" /\ rpc'[p].kind = rpc[p].kind
        /\ \A q \in Rpc : q # p => rpc'[q] = rpc[q]
    BY <1>1, GotoStep
  <2>2. Copying' = Copying
    BY <1>0, <2>1 DEF Copying, At
  <2>3. CopyKinds'
    BY Zenon, <1>0, <1>1, <2>1, <2>2, SessionsSame DEF CopyKinds, CopyInv, Copying
  <2> QED BY Zenon, <1>0, <1>1, <2>2, <2>3, CopySame, SessionsSame
<1>2. CASE Publish(p)
  <2>1. PICK s \in Sid :
           /\ session[s].life = "new"
           /\ session'[s].life = "alive" /\ session'[s].kind = rpc[p].kind
           /\ \A x \in Sid : x # s => session'[x] = session[x]
           /\ \A q \in Rpc : q # p => rpc'[q] = rpc[q]
           /\ rpc'[p].pc \in {"idle", "new session"}
    BY Zenon, <1>2, PublishStep
  <2>2. Copying' = Copying \ {p}
    BY Zenon, <1>0, <2>1 DEF Copying, At
  <2>3. s \notin Copies /\ Copies' = Copies \cup {s}
    <3>1. s \notin Copies /\ s \in Copies'
      BY Zenon, <1>0, <2>1 DEF Copies
    <3>2. \A x \in Sid : x # s => (x \in Copies' <=> x \in Copies)
      BY Zenon, <2>1 DEF Copies
    <3>3. Copies \subseteq Sid /\ Copies' \subseteq Sid
      BY Zenon DEF Copies
    <3> QED BY <3>1, <3>2, <3>3
  <2>4. CopyKinds'
    <3>1. \A q \in Copying' : rpc'[q].kind = "ephemeral"
      BY Zenon, <2>1, <2>2 DEF CopyInv, Copying
    <3>2. \A x \in Sid : session'[x].life = "copy gone" => session'[x].kind = "ephemeral"
      BY Zenon, <2>1 DEF CopyInv
    <3> QED BY Zenon, <3>1, <3>2 DEF CopyKinds
  <2>5. IsFiniteSet(Copying) /\ used = Cardinality(Copying) + Cardinality(Copies)
        /\ used <= MaxCopies
    BY CopySum
  <2>6. IsFiniteSet(Copying') /\ Cardinality(Copying') = Cardinality(Copying) - 1
        /\ Cardinality(Copying) \in Nat
    BY <1>0, <2>2, <2>5, FS_RemoveElement, FS_CardinalityType
  <2>7. Cardinality(Copies') = Cardinality(Copies) + 1 /\ Cardinality(Copies) \in Nat
    BY <2>3, CopiesFinite, FS_AddElement
  <2>8. used' = Cardinality(Copying') + Cardinality(Copies') /\ used' <= MaxCopies
    BY <1>0, <2>5, <2>6, <2>7
  <2> QED BY <2>4, <2>6, <2>8, CopySum
<1> QED BY <1>1, <1>2 DEF FinishCopy

\* Sessions of other kinds take no place.
LEMMA CreateSessionCopies ==
  ASSUME LifecycleTypeOK, FreshInv, CopyInv, NEW p \in Rpc, CreateSession(p)
  PROVE  CopyInv'
<1>0. rpc[p].pc = "new session" /\ used' = used /\ rpc[p].kind # "ephemeral"
  BY Zenon DEF CreateSession, At
<1>1. CASE Fail(p) /\ session' = session
  <2>1. rpc'[p].pc \in {"idle", "cleanup"} /\ \A q \in Rpc : q # p => rpc'[q] = rpc[q]
    BY <1>1, FailStep
  <2>2. Copying' = Copying /\ \A q \in Copying' : rpc'[q].kind = "ephemeral"
    BY Zenon, <1>0, <2>1, NotCopying DEF CopyPhases
  <2> QED BY Zenon, <1>0, <1>1, <2>2, CopySame, SessionsSame DEF CopyKinds
<1>2. CASE Publish(p)
  <2>1. PICK s \in Sid :
           /\ session[s].life = "new"
           /\ session'[s].life = "alive" /\ session'[s].kind = rpc[p].kind
           /\ \A x \in Sid : x # s => session'[x] = session[x]
           /\ \A q \in Rpc : q # p => rpc'[q] = rpc[q]
           /\ rpc'[p].pc \in {"idle", "new session"}
    BY Zenon, <1>2, PublishStep
  <2>2. Copying' = Copying /\ \A q \in Copying' : rpc'[q].kind = "ephemeral"
    BY Zenon, <1>0, <2>1, NotCopying DEF CopyPhases
  <2>3. Copies' = Copies
    <3>1. s \notin Copies /\ s \notin Copies'
      BY Zenon, <1>0, <2>1 DEF Copies
    <3>2. \A x \in Sid : x # s => (x \in Copies' <=> x \in Copies)
      BY Zenon, <2>1 DEF Copies
    <3>3. Copies \subseteq Sid /\ Copies' \subseteq Sid
      BY Zenon DEF Copies
    <3> QED BY <3>1, <3>2, <3>3
  <2>4. \A x \in Sid : session'[x].life = "copy gone" => session'[x].kind = "ephemeral"
    BY Zenon, <2>1 DEF CopyInv
  <2> QED BY Zenon, <1>0, <2>2, <2>3, <2>4, CopySame DEF CopyKinds
<1> QED BY Zenon, <1>1, <1>2 DEF CreateSession

\* A session keeps its place until its copy is gone, whatever else becomes of it.
LEMMA SessionCopies ==
  ASSUME LifecycleTypeOK, CopyInv, NEW s \in Sid, Expire(s) \/ Destroy(s)
  PROVE  CopyInv'
<1>0. /\ rpc' = rpc /\ session[s] \in SessionState /\ session \in [Sid -> SessionState]
      /\ Copies \subseteq Sid /\ Copies' \subseteq Sid
  BY Zenon DEF Expire, Destroy, DestroyCopy, ReleaseReservation, LifecycleTypeOK, Copies
<1>1. Copying' = Copying /\ \A q \in Copying' : rpc'[q].kind = "ephemeral"
  BY Zenon, <1>0 DEF Copying, At, CopyInv
<1>2. ASSUME used' = used, \A x \in Sid : x # s => session'[x] = session[x],
             session'[s].kind = session[s].kind,
             \/ session'[s].life = session[s].life
             \/ /\ session[s].kind = "ephemeral"
                /\ session[s].life = "alive" /\ session'[s].life = "copy gone"
      PROVE  CopyInv'
  <2>1. \A x \in Sid : x \in Copies' <=> x \in Copies
    BY Zenon, <1>2 DEF Copies
  <2>2. Copies' = Copies
    BY <1>0, <2>1
  <2>3. \A x \in Sid : session'[x].life = "copy gone" => session'[x].kind = "ephemeral"
    BY Zenon, <1>2 DEF CopyInv
  <2> QED BY Zenon, <1>1, <1>2, <2>2, <2>3, CopySame DEF CopyKinds
<1>3. CASE Expire(s)
  <2>1. session' = [session EXCEPT ![s] = [session[s] EXCEPT !.stale = TRUE]] /\ used' = used
    BY <1>3 DEF Expire
  <2>2. session'[s].kind = session[s].kind /\ session'[s].life = session[s].life
    BY Zenon, <1>0, <2>1 DEF SessionState
  <2> QED BY <1>0, <1>2, <2>1, <2>2
<1>4. CASE DestroyCopy(s)
  <2>1. /\ session' = [session EXCEPT ![s] = [session[s] EXCEPT !.life = "copy gone"]]
        /\ used' = used /\ session[s].kind = "ephemeral" /\ session[s].life = "alive"
    BY Zenon, <1>4 DEF DestroyCopy
  <2>2. session'[s].kind = session[s].kind /\ session'[s].life = "copy gone"
    BY Zenon, <1>0, <2>1 DEF SessionState
  <2> QED BY Zenon, <1>0, <1>2, <2>1, <2>2
<1>5. CASE ReleaseReservation(s)
  <2>1. /\ session' = [session EXCEPT ![s] = [session[s] EXCEPT !.life = "gone"]]
        /\ used' = used - 1 /\ session[s].life = "copy gone"
    BY Zenon, <1>5 DEF ReleaseReservation
  <2>2. session'[s].life = "gone" /\ \A x \in Sid : x # s => session'[x] = session[x]
    BY Zenon, <1>0, <2>1 DEF SessionState
  <2>3. s \in Copies /\ s \notin Copies'
    BY Zenon, <2>1, <2>2 DEF Copies, CopyInv
  <2>4. \A x \in Sid : x # s => (x \in Copies' <=> x \in Copies)
    BY Zenon, <2>2 DEF Copies
  <2>5. Copies' = Copies \ {s}
    BY <1>0, <2>3, <2>4
  <2>6. \A x \in Sid : session'[x].life = "copy gone" => session'[x].kind = "ephemeral"
    BY Zenon, <2>2 DEF CopyInv
  <2>7. IsFiniteSet(Copying) /\ used = Cardinality(Copying) + Cardinality(Copies)
        /\ used <= MaxCopies /\ Cardinality(Copying) \in Nat
    BY CopySum, FS_CardinalityType
  <2>8. Cardinality(Copies') = Cardinality(Copies) - 1 /\ Cardinality(Copies) \in Nat
    BY <2>3, <2>5, CopiesFinite, FS_RemoveElement
  <2>9. used' = Cardinality(Copying') + Cardinality(Copies') /\ used' <= MaxCopies
    <3>1. used' = used - 1 /\ Copying' = Copying /\ MaxCopies \in Nat
      BY Zenon, <1>1, <2>1, LifecycleAssumption
    <3> QED BY <2>7, <2>8, <3>1
  <2> QED BY Zenon, <1>1, <2>6, <2>7, <2>9, CopySum DEF CopyKinds
<1> QED BY <1>3, <1>4, <1>5 DEF Destroy

\* All places are accounted for, whatever happens.
LEMMA CopyStep ==
  ASSUME LifecycleTypeOK, FreshInv, CopyInv, [Next]_vars
  PROVE  CopyInv'
<1> USE DEF dbVars, sessionVars, muxVars
<1>1. ASSUME session' = session, used' = used, rpc' = rpc PROVE CopyInv'
  <2>1. Copying' = Copying /\ \A q \in Copying' : rpc'[q].kind = "ephemeral"
    BY Zenon, <1>1 DEF Copying, At, CopyInv
  <2> QED BY Zenon, <1>1, <2>1, CopySame, SessionsSame DEF CopyKinds
<1>2. ASSUME session' = session, used' = used, NEW p \in Rpc, NEW r, Go(p, r),
             rpc[p].pc \notin CopyPhases, r.pc \notin CopyPhases
      PROVE  CopyInv'
  <2>1. rpc'[p] = r /\ \A q \in Rpc : q # p => rpc'[q] = rpc[q]
    BY <1>2, GoStep
  <2>2. Copying' = Copying /\ \A q \in Copying' : rpc'[q].kind = "ephemeral"
    BY <1>2, <2>1, NotCopying
  <2> QED BY Zenon, <1>2, <2>2, CopySame, SessionsSame DEF CopyKinds
<1>3. ASSUME NEW p \in Rpc, Request(p) PROVE CopyInv'
  <2>0. At(p, "idle") => rpc[p].pc \notin CopyPhases
    BY DEF At, CopyPhases
  <2>1. ASSUME NEW u \in Uri, NEW d, CreateDatabase(p, u, d) PROVE CopyInv'
    <3>1. [Idle EXCEPT !.pc = "create operation", !.db = d, !.op = Generated].pc
            \notin CopyPhases
      BY DEF Idle, CopyPhases
    <3> QED BY Zenon, <1>2, <2>0, <2>1, <3>1 DEF CreateDatabase
  <2>2. ASSUME NEW u \in Uri, NEW id, UpdateDatabaseDdl(p, u, id) PROVE CopyInv'
    <3>1. [Idle EXCEPT !.pc = "update schema", !.uri = u, !.op = id].pc \notin CopyPhases
      BY DEF Idle, CopyPhases
    <3> QED BY Zenon, <1>2, <2>0, <2>2, <3>1 DEF UpdateDatabaseDdl
  <2>3. ASSUME NEW u \in Uri, NEW kind, NEW n, CreateSessions(p, u, kind, n) PROVE CopyInv'
    <3>1. [Idle EXCEPT !.pc = "new session", !.db = registered[u], !.kind = kind,
                       !.want = n].pc \notin CopyPhases
      BY DEF Idle, CopyPhases
    <3> QED BY Zenon, <1>2, <2>0, <2>3, <3>1 DEF CreateSessions
  <2>4. ASSUME NEW s, GetSession(p, s) PROVE CopyInv'
    <3>1. [Idle EXCEPT !.pc = "using", !.sid = s].pc \notin CopyPhases
      BY DEF Idle, CopyPhases
    <3> QED BY Zenon, <1>1, <1>2, <2>0, <2>4, <3>1 DEF GetSession
  <2>5. ASSUME NEW u \in Uri, ReleaseDatabase(p, u) PROVE CopyInv'
    <3>1. [Idle EXCEPT !.pc = "drop sessions", !.db = registered[u]].pc \notin CopyPhases
      BY DEF Idle, CopyPhases
    <3> QED BY Zenon, <1>2, <2>0, <2>5, <3>1 DEF ReleaseDatabase
  <2> QED BY <1>3, <2>1, <2>2, <2>3, <2>4, <2>5 DEF Request
<1>4. ASSUME NEW p \in Rpc, Step(p) PROVE CopyInv'
  <2>1. CASE CreateSession(p) \/ Reserve(p) \/ FinishCopy(p) \/ UndoCopy(p)
    BY <2>1, CreateSessionCopies, ReserveCopies, FinishCopies, UndoCopies
  <2>2. CASE \/ CreateDatabaseOperation(p) \/ DeleteDatabaseOperations(p)
             \/ AddToCurrentTransactions(p) \/ EndRequest(p)
    <3>1. /\ Go(p, Idle) /\ rpc[p].pc \notin CopyPhases
          /\ session' = session /\ used' = used
      BY Zenon, <2>2 DEF CreateDatabaseOperation, DeleteDatabaseOperations,
         AddToCurrentTransactions, EndRequest, At, CopyPhases
    <3>2. Idle.pc \notin CopyPhases
      BY DEF Idle, CopyPhases
    <3> QED BY <1>2, <3>1, <3>2
  <2>3. CASE DeleteDatabaseSessions(p) \/ RemoveDatabaseTransactions(p)
    <3>1. /\ rpc[p].pc \notin CopyPhases /\ session' = session /\ used' = used
          /\ \E to \in {"drop transactions", "drop operations"} : Goto(p, to)
      BY Zenon, <2>3 DEF DeleteDatabaseSessions, RemoveDatabaseTransactions, At, CopyPhases
    <3>2. rpc[p] \in RpcFields
      BY Zenon, RpcType DEF RpcState
    <3>3. \A to \in {"drop transactions", "drop operations"} :
            [rpc[p] EXCEPT !.pc = to].pc \notin CopyPhases
      BY Zenon, <3>2 DEF RpcFields, CopyPhases
    <3> QED BY Zenon, <1>2, <3>1, <3>3 DEF Goto
  <2>4. CASE UpdateSchema(p)
    <3>1. rpc[p] \in RpcFields /\ rpc[p].pc \notin CopyPhases
      BY Zenon, <2>4, RpcType DEF RpcState, UpdateSchema, At, CopyPhases
    <3>2. /\ \A d : [rpc[p] EXCEPT !.pc = "create operation", !.db = d].pc \notin CopyPhases
          /\ Idle.pc \notin CopyPhases
      BY <3>1 DEF RpcFields, CopyPhases, Idle
    <3> QED BY Zenon, <1>2, <2>4, <3>1, <3>2 DEF UpdateSchema
  <2>5. CASE Cleanup(p)
    <3>1. PICK s : Go(p, IF rpc[p].made = {s} THEN Idle ELSE [rpc[p] EXCEPT !.made = @ \ {s}])
      BY Zenon, <2>5 DEF Cleanup
    <3>2. rpc[p] \in RpcFields /\ rpc[p].pc = "cleanup"
      BY Zenon, <2>5, RpcType DEF RpcState, Cleanup, At
    <3>3. /\ [rpc[p] EXCEPT !.made = @ \ {s}].pc \notin CopyPhases
          /\ Idle.pc \notin CopyPhases /\ rpc[p].pc \notin CopyPhases
      BY <3>2 DEF RpcFields, CopyPhases, Idle
    <3>4. session' = session /\ used' = used
      BY <2>5 DEF Cleanup
    <3> QED BY Zenon, <1>2, <3>1, <3>3, <3>4
  <2> QED BY <1>4, <2>1, <2>2, <2>3, <2>4, <2>5 DEF Step
<1>5. CASE \E s \in Sid : Expire(s) \/ Destroy(s)
  BY <1>5, SessionCopies
<1>6. CASE \/ \E o \in operations : DeleteOperation(o)
           \/ \E s \in Sid : DeleteSession(s)
           \/ Sweep
           \/ \E u \in Uri, t \in TxnId : ClearOldTransactions(u, t)
           \/ UNCHANGED vars
  BY Zenon, <1>1, <1>6 DEF DeleteOperation, DeleteSession, Sweep, StartSweep, FinishSweep,
     ClearOldTransactions, vars
<1> QED BY <1>3, <1>4, <1>5, <1>6 DEF Next

--------------------------------------------------------------------------------
(* Transactions of multiplexed sessions: their ids *)

\* A request is for a kind of session from CreateSessions on, and keeps the
\* database it has found.
LEMMA KindSteps ==
  ASSUME LifecycleTypeOK, [Next]_vars, NEW p \in Rpc, rpc'[p].kind # None
  PROVE  \/ rpc[p].kind # None /\ rpc'[p].db = rpc[p].db
         \/ \E u \in Uri : registered[u] # None /\ rpc'[p].db = registered[u]
<1> DEFINE Same(r) == r.kind = None \/ (r.kind = rpc[p].kind /\ r.db = rpc[p].db)
           Goal == \/ rpc[p].kind # None /\ rpc'[p].db = rpc[p].db
                   \/ \E u \in Uri : registered[u] # None /\ rpc'[p].db = registered[u]
<1> SUFFICES Goal
  BY Zenon
<1>0. rpc[p] \in RpcFields /\ Idle.kind = None
  BY Zenon, RpcType DEF RpcState, Idle
<1>1. ASSUME NEW q \in Rpc, NEW r, Go(q, r), q = p => Same(r) PROVE Goal
  <2>1. rpc'[p] = IF p = q THEN r ELSE rpc[p]
    BY <1>1, GoStep
  <2> QED BY <1>1, <2>1
<1>2. ASSUME NEW q \in Rpc, NEW to, Goto(q, to) PROVE Goal
  <2>1. q = p => Same([rpc[q] EXCEPT !.pc = to])
    BY <1>0 DEF RpcFields
  <2> HIDE DEF Goal, Same
  <2> QED BY <1>1, <1>2, <2>1 DEF Goto
<1>3. ASSUME NEW q \in Rpc, Fail(q) PROVE Goal
  <2>1. q = p => Same(Idle) /\ Same([rpc[q] EXCEPT !.pc = "cleanup"])
    BY <1>0 DEF RpcFields
  <2>2. \E r \in {Idle, [rpc[q] EXCEPT !.pc = "cleanup"]} : Go(q, r)
    BY <1>3 DEF Fail
  <2> HIDE DEF Goal, Same
  <2> QED BY <1>1, <2>1, <2>2
<1>4. ASSUME NEW q \in Rpc, Publish(q) PROVE Goal
  <2>1. \E all : \E r \in {Idle, [rpc[q] EXCEPT !.pc = "new session", !.want = @ - 1,
                                                !.made = all]} : Go(q, r)
    BY Zenon, <1>4 DEF Publish
  <2>2. q = p => /\ Same(Idle)
                 /\ \A all : Same([rpc[q] EXCEPT !.pc = "new session", !.want = @ - 1,
                                                 !.made = all])
    BY <1>0 DEF RpcFields
  <2> HIDE DEF Goal, Same
  <2> QED BY Zenon, <1>1, <2>1, <2>2
<1>5. ASSUME NEW q \in Rpc, Request(q) PROVE Goal
  <2>1. ASSUME NEW u \in Uri, NEW d, CreateDatabase(q, u, d) PROVE Goal
    <3>1. [Idle EXCEPT !.pc = "create operation", !.db = d, !.op = Generated].kind = None
      BY DEF Idle
    <3> QED BY Zenon, <1>1, <2>1, <3>1 DEF CreateDatabase
  <2>2. ASSUME NEW u \in Uri, NEW id, UpdateDatabaseDdl(q, u, id) PROVE Goal
    <3>1. [Idle EXCEPT !.pc = "update schema", !.uri = u, !.op = id].kind = None
      BY DEF Idle
    <3> QED BY Zenon, <1>1, <2>2, <3>1 DEF UpdateDatabaseDdl
  <2>3. ASSUME NEW u \in Uri, NEW kind, NEW n, CreateSessions(q, u, kind, n) PROVE Goal
    <3> DEFINE r == [Idle EXCEPT !.pc = "new session", !.db = registered[u], !.kind = kind,
                                 !.want = n]
    <3>1. Go(q, r) /\ registered[u] # None /\ r.db = registered[u]
      BY <2>3 DEF CreateSessions, Idle
    <3> HIDE DEF r
    <3>2. rpc'[p] = IF p = q THEN r ELSE rpc[p]
      BY <3>1, GoStep
    <3> QED BY <3>1, <3>2
  <2>4. ASSUME NEW s, GetSession(q, s) PROVE Goal
    <3>1. [Idle EXCEPT !.pc = "using", !.sid = s].kind = None
      BY DEF Idle
    <3> QED BY Zenon, <1>1, <2>4, <3>1 DEF GetSession
  <2>5. ASSUME NEW u \in Uri, ReleaseDatabase(q, u) PROVE Goal
    <3>1. [Idle EXCEPT !.pc = "drop sessions", !.db = registered[u]].kind = None
      BY DEF Idle
    <3> QED BY Zenon, <1>1, <2>5, <3>1 DEF ReleaseDatabase
  <2> QED BY Zenon, <1>5, <2>1, <2>2, <2>3, <2>4, <2>5 DEF Request
<1>6. ASSUME NEW q \in Rpc, Step(q) PROVE Goal
  <2>1. CASE \/ CreateDatabaseOperation(q) \/ DeleteDatabaseOperations(q)
             \/ AddToCurrentTransactions(q) \/ EndRequest(q)
    <3>1. Go(q, Idle)
      BY Zenon, <2>1 DEF CreateDatabaseOperation, DeleteDatabaseOperations,
         AddToCurrentTransactions, EndRequest
    <3> QED BY Zenon, <1>0, <1>1, <3>1
  <2>2. CASE \/ CreateSession(q) \/ Reserve(q) \/ FinishCopy(q) \/ UndoCopy(q)
             \/ DeleteDatabaseSessions(q) \/ RemoveDatabaseTransactions(q)
    <3>1. Publish(q) \/ Fail(q) \/ \E to : Goto(q, to)
      BY Zenon, <2>2 DEF CreateSession, Reserve, FinishCopy, UndoCopy, DeleteDatabaseSessions,
         RemoveDatabaseTransactions
    <3> QED BY Zenon, <1>2, <1>3, <1>4, <3>1
  <2>3. CASE UpdateSchema(q)
    <3> DEFINE d == registered[rpc[q].uri]
               r == [rpc[q] EXCEPT !.pc = "create operation", !.db = d]
    <3>1. rpc[q] \in RpcFields /\ rpc[q].uri \in Uri
      BY Zenon, <2>3, RpcType DEF RpcState, UpdateSchema, At
    <3>2. (d # None /\ Go(q, r)) \/ Go(q, Idle)
      BY Zenon, <2>3 DEF UpdateSchema
    <3>3. r.db = d
      BY <3>1 DEF RpcFields
    <3> HIDE DEF r
    <3>4. CASE Go(q, Idle)
      BY <1>0, <1>1, <3>4
    <3>5. CASE d # None /\ Go(q, r)
      <4>1. rpc'[p] = IF p = q THEN r ELSE rpc[p]
        BY <3>5, GoStep
      <4> QED BY <3>1, <3>3, <3>5, <4>1
    <3> QED BY Zenon, <3>2, <3>4, <3>5
  <2>4. CASE Cleanup(q)
    <3>1. \E s : \E r \in {Idle, [rpc[q] EXCEPT !.made = @ \ {s}]} : Go(q, r)
      BY Zenon, <2>4 DEF Cleanup
    <3>2. q = p => Same(Idle) /\ \A s : Same([rpc[q] EXCEPT !.made = @ \ {s}])
      BY <1>0 DEF RpcFields
    <3> HIDE DEF Goal, Same
    <3> QED BY Zenon, <1>1, <3>1, <3>2
  <2> QED BY Zenon, <1>6, <2>1, <2>2, <2>3, <2>4 DEF Step
<1>7. CASE rpc' = rpc
  BY <1>7
<1>8. CASE \/ \E o \in operations : DeleteOperation(o)
           \/ \E s \in Sid : DeleteSession(s) \/ Expire(s) \/ Destroy(s)
           \/ Sweep \/ \E u \in Uri, t \in TxnId : ClearOldTransactions(u, t)
           \/ UNCHANGED vars
  <2>1. rpc' = rpc
    BY Zenon, <1>8 DEF DeleteOperation, DeleteSession, Expire, Destroy, DestroyCopy,
       ReleaseReservation, Sweep, StartSweep, FinishSweep, ClearOldTransactions, vars
  <2> QED BY <1>7, <2>1
<1> QED BY Zenon, <1>5, <1>6, <1>8 DEF Next

\* Databases keep their URIs, and their registration as long as they are not
\* dropped.
LEMMA OwnerStep ==
  ASSUME LifecycleTypeOK, OwnerInv, [Next]_vars
  PROVE  OwnerInv'
<1> DEFINE Kinded == /\ \A p \in Rpc : rpc'[p].kind # None => Made(rpc'[p].db)
                     /\ \A s \in Sid : session'[s].kind # None => Made(session'[s].db)
<1>0. /\ None \notin Db /\ None \notin Uri
      /\ registered \in [Uri -> Db \cup {None}] /\ uri \in [Db -> Uri \cup {None}]
  BY LifecycleAssumption DEF LifecycleTypeOK
<1>1. Kinded
  <2>1. ASSUME NEW p \in Rpc, rpc'[p].kind # None PROVE Made(rpc'[p].db)
    <3>1. CASE rpc[p].kind # None /\ rpc'[p].db = rpc[p].db
      BY Zenon, <3>1 DEF OwnerInv
    <3>2. ASSUME NEW u \in Uri, registered[u] # None, rpc'[p].db = registered[u]
          PROVE  Made(rpc'[p].db)
      BY <1>0, <3>2 DEF OwnerInv, Made
    <3> QED BY <2>1, <3>1, <3>2, KindSteps
  <2>2. ASSUME NEW s \in Sid, session'[s].kind # None PROVE Made(session'[s].db)
    <3>1. CASE Kept(s)
      BY <2>2, <3>1 DEF Kept, OwnerInv
    <3>2. ASSUME NEW p \in Rpc, Publish(p) PROVE Made(session'[s].db)
      <4>1. PICK x \in Sid : session' = [session EXCEPT ![x] =
                                           [db |-> rpc[p].db, kind |-> rpc[p].kind,
                                            stale |-> FALSE, life |-> "alive"]]
        BY Zenon, <3>2 DEF Publish
      <4>2. CASE s = x
        <5>1. session'[s].db = rpc[p].db /\ session'[s].kind = rpc[p].kind
          BY <4>1, <4>2 DEF LifecycleTypeOK
        <5> QED BY Zenon, <2>2, <5>1 DEF OwnerInv
      <4>3. CASE s # x
        <5>1. session'[s] = session[s]
          BY <4>1, <4>3 DEF LifecycleTypeOK
        <5> QED BY Zenon, <2>2, <5>1 DEF OwnerInv
      <4> QED BY <4>2, <4>3
    <3> QED BY <3>1, <3>2, SessionSteps
  <2> QED BY <2>1, <2>2
<1> HIDE DEF Kinded
<1>2. CASE UNCHANGED <<registered, count, uri, dropped>>
  BY Zenon, <1>1, <1>2 DEF OwnerInv, Made, Kinded
<1>3. ASSUME NEW p \in Rpc, NEW u \in Uri, NEW d \in Db, CreateDatabase(p, u, d)
      PROVE  OwnerInv'
  <2>1. /\ uri[d] = None /\ registered[u] = None /\ uri' = [uri EXCEPT ![d] = u]
        /\ registered' = [registered EXCEPT ![u] = d] /\ dropped' = dropped
    BY <1>3 DEF CreateDatabase
  <2>2. \A v \in Uri : registered'[v] # None => uri'[registered'[v]] = v
    BY Zenon, <1>0, <2>1 DEF OwnerInv
  <2>3. \A e \in Db : uri'[e] # None /\ e \notin dropped' => registered'[uri'[e]] = e
    BY <1>0, <2>1 DEF OwnerInv
  <2>4. \A e : Made(e) => Made(e)'
    BY <1>0, <2>1 DEF Made
  <2> QED BY Zenon, <1>1, <2>2, <2>3, <2>4 DEF OwnerInv, Kinded
<1>4. ASSUME NEW p \in Rpc, NEW u \in Uri, ReleaseDatabase(p, u) PROVE OwnerInv'
  <2>1. /\ registered' = [registered EXCEPT ![u] = None] /\ uri' = uri
        /\ dropped' = dropped \cup {registered[u]}
    BY <1>4 DEF ReleaseDatabase
  <2>2. \A v \in Uri : registered'[v] # None => uri'[registered'[v]] = v
    BY Zenon, <1>0, <2>1 DEF OwnerInv
  <2>3. \A e \in Db : uri'[e] # None /\ e \notin dropped' => registered'[uri'[e]] = e
    BY Zenon, <1>0, <2>1 DEF OwnerInv
  <2> QED BY Zenon, <1>1, <2>1, <2>2, <2>3 DEF OwnerInv, Kinded, Made
<1> QED BY <1>2, <1>3, <1>4, DatabaseSteps

\* The steps that change what is known of transactions and their databases.
LEMMA IdSteps ==
  ASSUME [Next]_vars
  PROVE  \/ UNCHANGED <<registered, uri, dropped, nextTxn, mux, begun>>
         \/ \E p \in Rpc : \/ \E u \in Uri : \/ \E d \in Db : CreateDatabase(p, u, d)
                                             \/ ReleaseDatabase(p, u)
                           \/ RemoveDatabaseTransactions(p)
                           \/ AddToCurrentTransactions(p)
         \/ \E u \in Uri, t \in TxnId : ClearOldTransactions(u, t)
<1> USE DEF dbVars, sessionVars, muxVars
<1> DEFINE Same == UNCHANGED <<registered, uri, dropped, nextTxn, mux, begun>>
<1>1. ASSUME NEW p \in Rpc, Request(p)
      PROVE  \/ Same
             \/ \E u \in Uri : (\E d \in Db : CreateDatabase(p, u, d)) \/ ReleaseDatabase(p, u)
  <2>1. ASSUME NEW u \in Uri, NEW id, UpdateDatabaseDdl(p, u, id) PROVE Same
    BY <2>1 DEF UpdateDatabaseDdl
  <2>2. ASSUME NEW u \in Uri, NEW kind, NEW n, CreateSessions(p, u, kind, n) PROVE Same
    BY <2>2 DEF CreateSessions
  <2>3. ASSUME NEW s, GetSession(p, s) PROVE Same
    BY <2>3 DEF GetSession
  <2> QED BY <1>1, <2>1, <2>2, <2>3 DEF Request
<1>2. ASSUME NEW p \in Rpc, Step(p)
      PROVE  Same \/ RemoveDatabaseTransactions(p) \/ AddToCurrentTransactions(p)
  BY Zenon, <1>2 DEF Step, UpdateSchema, CreateDatabaseOperation, DeleteDatabaseSessions,
     DeleteDatabaseOperations, CreateSession, Reserve, FinishCopy, UndoCopy, Cleanup,
     EndRequest
<1>3. CASE \E o \in operations : DeleteOperation(o)
  BY <1>3 DEF DeleteOperation
<1>4. CASE \E s \in Sid : DeleteSession(s) \/ Expire(s) \/ Destroy(s)
  BY Zenon, <1>4 DEF DeleteSession, Expire, Destroy, DestroyCopy, ReleaseReservation
<1>5. CASE Sweep
  BY Zenon, <1>5 DEF Sweep, StartSweep, FinishSweep
<1>6. CASE UNCHANGED vars
  BY <1>6 DEF vars
<1> QED BY Zenon, <1>1, <1>2, <1>3, <1>4, <1>5, <1>6 DEF Next

\* The ids in the map stay below those to come.
LEMMA IdStep ==
  ASSUME LifecycleTypeOK, DropInv, OwnerInv, IdInv, [Next]_vars
  PROVE  IdInv'
<1>0. /\ None \notin Db /\ None \notin Uri /\ dropped \subseteq Db /\ TxnId \subseteq Nat
      /\ registered \in [Uri -> Db \cup {None}] /\ uri \in [Db -> Uri \cup {None}]
      /\ nextTxn \in [Db -> Nat] /\ mux \in [Uri \X TxnId -> Db \cup {None}]
  BY LifecycleAssumption DEF LifecycleTypeOK, TxnId
<1>a. /\ \A u \in Uri, t \in TxnId :
           mux[<<u, t>>] # None => uri[mux[<<u, t>>]] = u /\ t < nextTxn[mux[<<u, t>>]]
      /\ \A b \in begun : b \in Db \X TxnId /\ uri[b[1]] \in Uri
  BY DEF IdInv
<1>b. ASSUME ~SetBack
      PROVE  /\ \A u \in Uri, t \in TxnId :
                  registered[u] # None /\ mux[<<u, t>>] # None => t < nextTxn[registered[u]]
             /\ \A b \in begun : b[1] \in dropped \/ mux[<<uri[b[1]], b[2]>>] = b[1]
  BY <1>b DEF IdInv, BegunIsFound
<1>c. \A b \in begun : b[1] \in Db /\ b[2] \in TxnId /\ uri[b[1]] \in Uri
  BY <1>a
<1>1. CASE UNCHANGED <<registered, uri, dropped, nextTxn, mux, begun>>
  BY Zenon, <1>1 DEF IdInv, BegunIsFound
<1>2. ASSUME NEW p \in Rpc, NEW u \in Uri, NEW d \in Db, CreateDatabase(p, u, d) PROVE IdInv'
  <2>1. PICK now \in TxnId :
          /\ SystemTime(now) /\ nextTxn' = [nextTxn EXCEPT ![d] = now]
          /\ uri[d] = None /\ uri' = [uri EXCEPT ![d] = u]
          /\ registered' = [registered EXCEPT ![u] = d]
          /\ dropped' = dropped /\ mux' = mux /\ begun' = begun
    BY Zenon, <1>2 DEF CreateDatabase, FirstId
  <2>2. \A e \in Db : e # d => nextTxn'[e] = nextTxn[e] /\ uri'[e] = uri[e]
    BY <1>0, <2>1
  <2>3. \A v \in Uri, t \in TxnId : mux[<<v, t>>] \in Db \cup {None} /\ mux[<<v, t>>] # d
    <3> SUFFICES ASSUME NEW v \in Uri, NEW t \in TxnId
                 PROVE  mux[<<v, t>>] \in Db \cup {None} /\ mux[<<v, t>>] # d
      BY Zenon
    <3>1. mux[<<v, t>>] \in Db \cup {None}
      BY <1>0
    <3>2. ASSUME mux[<<v, t>>] = d PROVE FALSE
      <4>1. d # None /\ uri[d] = None /\ v # None
        BY <1>0, <2>1
      <4>2. uri[d] = v
        BY <1>a, <3>2, <4>1, Zenon
      <4> QED BY <4>1, <4>2
    <3> QED BY <3>1, <3>2
  <2>4. \A b \in begun : b[1] \in Db /\ b[1] # d
    BY <1>0, <1>a, <2>1
  <2>5. \A v \in Uri, t \in TxnId : mux'[<<v, t>>] # None =>
          uri'[mux'[<<v, t>>]] = v /\ t < nextTxn'[mux'[<<v, t>>]]
    BY <1>a, <2>1, <2>2, <2>3
  <2>6. \A b \in begun' : b \in Db \X TxnId /\ uri'[b[1]] \in Uri
    BY <1>a, <2>1, <2>2, <2>4
  <2>7. ASSUME ~SetBack
        PROVE  /\ \A v \in Uri, t \in TxnId :
                    registered'[v] # None /\ mux'[<<v, t>>] # None => t < nextTxn'[registered'[v]]
               /\ BegunIsFound'
    <3>1. ASSUME NEW v \in Uri, NEW t \in TxnId, registered'[v] # None, mux'[<<v, t>>] # None
          PROVE  t < nextTxn'[registered'[v]]
      <4>1. CASE v = u
        <5>1. registered'[v] = d /\ nextTxn'[d] = now /\ now \in Nat /\ t \in Nat
          BY <1>0, <2>1, <4>1
        <5>2. PICK e \in Db : e = mux[<<v, t>>] /\ t < nextTxn[e] /\ nextTxn[e] \in Nat
          BY Zenon, <1>0, <1>a, <2>1, <2>3, <3>1
        <5>3. nextTxn[e] <= now
          BY Zenon, <2>1, <2>7, <5>2 DEF SystemTime
        <5> QED BY <5>1, <5>2, <5>3
      <4>2. CASE v # u
        <5>1. registered'[v] = registered[v] /\ mux'[<<v, t>>] = mux[<<v, t>>]
          BY <1>0, <2>1, <4>2
        <5>2. registered[v] \in Db /\ registered[v] # d
          BY Zenon, <1>0, <2>1, <3>1, <5>1 DEF OwnerInv
        <5>3. t < nextTxn[registered[v]]
          BY Zenon, <1>b, <2>7, <3>1, <5>1
        <5> QED BY <2>2, <5>1, <5>2, <5>3
      <4> QED BY <4>1, <4>2
    <3>2. BegunIsFound'
      BY <1>b, <2>1, <2>2, <2>4, <2>7 DEF BegunIsFound
    <3> QED BY <3>1, <3>2
  <2> QED BY Zenon, <2>5, <2>6, <2>7 DEF IdInv
<1>3. ASSUME NEW p \in Rpc, NEW u \in Uri, ReleaseDatabase(p, u) PROVE IdInv'
  <2>1. /\ registered' = [registered EXCEPT ![u] = None] /\ dropped \subseteq dropped'
        /\ uri' = uri /\ nextTxn' = nextTxn /\ mux' = mux /\ begun' = begun
    BY <1>3 DEF ReleaseDatabase, muxVars
  <2>2. \A v \in Uri : registered'[v] # None => registered'[v] = registered[v]
    <3>1. DOMAIN registered = Uri
      BY <1>0
    <3> QED BY <2>1, <3>1
  <2> QED BY Zenon, <1>a, <1>b, <2>1, <2>2 DEF IdInv, BegunIsFound
<1>4. ASSUME NEW p \in Rpc, RemoveDatabaseTransactions(p) PROVE IdInv'
  <2>1. /\ rpc[p].db \in dropped
        /\ mux' = [e \in DOMAIN mux |-> IF mux[e] = rpc[p].db THEN None ELSE mux[e]]
        /\ UNCHANGED <<registered, uri, dropped, nextTxn, begun>>
    BY Zenon, <1>4 DEF RemoveDatabaseTransactions, DropInv, At, dbVars
  <2>2. \A u \in Uri, t \in TxnId :
          \/ mux'[<<u, t>>] = mux[<<u, t>>]
          \/ mux'[<<u, t>>] = None /\ mux[<<u, t>>] \in dropped
    <3>1. \A u \in Uri, t \in TxnId : <<u, t>> \in DOMAIN mux
      BY <1>0
    <3> QED BY <2>1, <3>1, Zenon
  <2>3. ASSUME ~SetBack, NEW b \in begun, b[1] \notin dropped
        PROVE  mux'[<<uri[b[1]], b[2]>>] = b[1]
    <3>1. mux[<<uri[b[1]], b[2]>>] = b[1]
      BY <1>b, <2>3, Zenon
    <3> QED BY <1>c, <2>2, <2>3, <3>1, Zenon
  <2>4. \A u \in Uri, t \in TxnId : mux'[<<u, t>>] # None => mux'[<<u, t>>] = mux[<<u, t>>]
    BY <2>2, Zenon
  <2>5. \A u \in Uri, t \in TxnId : mux'[<<u, t>>] # None =>
          uri'[mux'[<<u, t>>]] = u /\ t < nextTxn'[mux'[<<u, t>>]]
    BY <1>a, <2>1, <2>4
  <2>6. ASSUME ~SetBack
        PROVE  \A u \in Uri, t \in TxnId :
                 registered'[u] # None /\ mux'[<<u, t>>] # None => t < nextTxn'[registered'[u]]
    BY <1>b, <2>1, <2>4, <2>6
  <2> QED BY <1>a, <2>1, <2>3, <2>5, <2>6, Zenon DEF IdInv, BegunIsFound
<1>5. ASSUME NEW u \in Uri, NEW t \in TxnId, ClearOldTransactions(u, t) PROVE IdInv'
  <2>1. /\ mux' = [mux EXCEPT ![<<u, t>>] = None]
        /\ begun' = begun \ {<<mux[<<u, t>>], t>>}
        /\ UNCHANGED <<registered, uri, dropped, nextTxn>>
    BY <1>5 DEF ClearOldTransactions, dbVars
  <2>2. \A v \in Uri, i \in TxnId :
          \/ mux'[<<v, i>>] = mux[<<v, i>>]
          \/ mux'[<<v, i>>] = None /\ v = u /\ i = t
    BY <1>0, <2>1
  <2>3. ASSUME ~SetBack, NEW b \in begun', b[1] \notin dropped'
        PROVE  mux'[<<uri'[b[1]], b[2]>>] = b[1]
    <3>1. b \in begun /\ b \in Db \X TxnId /\ uri[b[1]] \in Uri /\ b[1] \notin dropped
      BY <1>a, <2>1, <2>3
    <3>2. mux[<<uri[b[1]], b[2]>>] = b[1]
      BY <1>b, <2>3, <3>1
    <3>3. ~(uri[b[1]] = u /\ b[2] = t)
      BY <2>1, <2>3, <3>1, <3>2
    <3> QED BY <2>1, <2>2, <3>1, <3>2, <3>3
  <2>4. \A v \in Uri, i \in TxnId : mux'[<<v, i>>] # None => mux'[<<v, i>>] = mux[<<v, i>>]
    BY <2>2, Zenon
  <2>5. \A v \in Uri, i \in TxnId : mux'[<<v, i>>] # None =>
          uri'[mux'[<<v, i>>]] = v /\ i < nextTxn'[mux'[<<v, i>>]]
    BY <1>a, <2>1, <2>4
  <2>6. ASSUME ~SetBack
        PROVE  \A v \in Uri, i \in TxnId :
                 registered'[v] # None /\ mux'[<<v, i>>] # None => i < nextTxn'[registered'[v]]
    BY <1>b, <2>1, <2>4, <2>6
  <2>7. \A b \in begun' : b \in Db \X TxnId /\ uri'[b[1]] \in Uri
    BY <1>a, <2>1
  <2> QED BY <2>3, <2>5, <2>6, <2>7, Zenon DEF IdInv, BegunIsFound
<1>6. ASSUME NEW p \in Rpc, AddToCurrentTransactions(p) PROVE IdInv'
  <2> DEFINE d == session[rpc[p].sid].db
             t == nextTxn[d]
  <2>1. rpc[p].sid \in Sid /\ session[rpc[p].sid].kind # None
    <3>1. /\ rpc[p].pc = "using" /\ session[rpc[p].sid].kind = "multiplexed"
      BY Zenon, <1>6 DEF AddToCurrentTransactions, At
    <3>2. session[rpc[p].sid].kind # None
      BY <3>1, LifecycleAssumption DEF Kinds
    <3> QED BY Zenon, <3>1, <3>2, RpcType DEF RpcState
  <2>2. d \in Db /\ uri[d] \in Uri
    BY Zenon, <2>1 DEF OwnerInv, Made
  <2>3. /\ t \in TxnId /\ nextTxn' = [nextTxn EXCEPT ![d] = t + 1]
        /\ UNCHANGED <<registered, uri, dropped>>
        /\ \/ UNCHANGED <<mux, begun>>
           \/ /\ d \notin dropped /\ begun' = begun \cup {<<d, t>>}
              /\ mux' = IF mux[<<uri[d], t>>] # None THEN mux
                        ELSE [mux EXCEPT ![<<uri[d], t>>] = d]
    BY Zenon, <1>6 DEF AddToCurrentTransactions, dbVars
  <2>4. t \in Nat /\ nextTxn[d] = t
    BY Zenon, <1>0, <2>3
  <2> HIDE DEF d, t
  <2>5. nextTxn' \in [Db -> Nat] /\ \A e \in Db : nextTxn[e] <= nextTxn'[e] /\ t < nextTxn'[d]
    BY <1>0, <2>2, <2>3, <2>4
  <2>6. \A v \in Uri, i \in TxnId :
          \/ mux'[<<v, i>>] = mux[<<v, i>>]
          \/ /\ v = uri[d] /\ i = t /\ mux[<<v, i>>] = None /\ mux'[<<v, i>>] = d
             /\ d \notin dropped
    BY Zenon, <1>0, <2>2, <2>3
  <2>7. \A v \in Uri, i \in TxnId : mux'[<<v, i>>] # None =>
          uri'[mux'[<<v, i>>]] = v /\ i < nextTxn'[mux'[<<v, i>>]]
    <3> SUFFICES ASSUME NEW v \in Uri, NEW i \in TxnId, mux'[<<v, i>>] # None
                 PROVE  uri'[mux'[<<v, i>>]] = v /\ i < nextTxn'[mux'[<<v, i>>]]
      OBVIOUS
    <3>1. CASE mux'[<<v, i>>] = mux[<<v, i>>]
      <4>0. mux[<<v, i>>] \in Db
        BY <1>0, <3>1
      <4>a. uri[mux[<<v, i>>]] = v /\ i < nextTxn[mux[<<v, i>>]]
        BY <1>a, <3>1
      <4>1. PICK e \in Db : e = mux[<<v, i>>] /\ uri[e] = v /\ i < nextTxn[e]
        BY <4>0, <4>a, Zenon
      <4>2. i \in Nat /\ nextTxn[e] \in Nat /\ nextTxn'[e] \in Nat /\ nextTxn[e] <= nextTxn'[e]
        <5>1. i \in Nat /\ nextTxn \in [Db -> Nat]
          BY <1>0
        <5> QED BY <2>5, <5>1
      <4>3. i < nextTxn'[e]
        BY <4>1, <4>2
      <4> QED BY Zenon, <2>3, <3>1, <4>1, <4>3
    <3>2. CASE v = uri[d] /\ i = t /\ mux'[<<v, i>>] = d
      BY Zenon, <2>2, <2>3, <2>5, <3>2
    <3> QED BY Zenon, <2>6, <3>1, <3>2
  <2>8. \A b \in begun' : b \in Db \X TxnId /\ uri'[b[1]] \in Uri
    BY <1>a, <2>2, <2>3
  <2>9. ASSUME ~SetBack
        PROVE  /\ \A v \in Uri, i \in TxnId :
                    registered'[v] # None /\ mux'[<<v, i>>] # None => i < nextTxn'[registered'[v]]
               /\ BegunIsFound'
    <3>1. d \notin dropped => registered[uri[d]] = d
      BY Zenon, <1>0, <2>2 DEF OwnerInv
    <3>2. ASSUME NEW v \in Uri, NEW i \in TxnId, registered'[v] # None, mux'[<<v, i>>] # None
          PROVE  i < nextTxn'[registered'[v]]
      <4>1. CASE mux'[<<v, i>>] = mux[<<v, i>>]
        <5>1. PICK e \in Db : e = registered[v] /\ i < nextTxn[e] /\ registered'[v] = e
          BY Zenon, <1>0, <1>b, <2>3, <2>9, <3>2, <4>1
        <5>2. i \in Nat /\ nextTxn[e] \in Nat /\ nextTxn'[e] \in Nat /\ nextTxn[e] <= nextTxn'[e]
          BY <1>0, <2>5
        <5>3. i < nextTxn'[e]
          BY <5>1, <5>2
        <5> QED BY <5>1, <5>3
      <4>2. CASE v = uri[d] /\ i = t /\ d \notin dropped
        BY <2>2, <2>3, <2>5, <3>1, <4>2
      <4> QED BY <2>6, <4>1, <4>2
    <3>3. ASSUME d \notin dropped PROVE mux[<<uri[d], t>>] = None
      <4>1. ~(t < nextTxn[registered[uri[d]]]) /\ registered[uri[d]] # None
        <5>1. registered[uri[d]] = d /\ d # None
          BY <1>0, <2>2, <3>1, <3>3
        <5>2. ~(t < nextTxn[d])
          BY <2>4
        <5> QED BY <5>1, <5>2
      <4> QED BY <1>b, <2>2, <2>3, <2>9, <4>1
    <3>4. ASSUME NEW b \in begun', b[1] \notin dropped'
          PROVE  mux'[<<uri'[b[1]], b[2]>>] = b[1]
      <4>1. CASE b \in begun
        <5>1. /\ b[1] \in Db /\ b[2] \in TxnId /\ uri[b[1]] \in Uri
              /\ mux[<<uri[b[1]], b[2]>>] = b[1]
          <6>1. b[1] \notin dropped
            BY <2>3, <3>4
          <6> QED BY <1>b, <1>c, <2>9, <4>1, <6>1, Zenon
        <5> QED BY <1>0, <2>3, <2>6, <5>1
      <4>2. CASE b = <<d, t>> /\ d \notin dropped /\ b \notin begun
        <5>1. mux' = [mux EXCEPT ![<<uri[d], t>>] = d]
          BY <2>3, <3>3, <3>4, <4>2
        <5> QED BY <1>0, <2>2, <2>3, <4>2, <5>1
      <4> QED BY <2>3, <3>4, <4>1, <4>2
    <3> QED BY Zenon, <3>2, <3>4 DEF BegunIsFound
  <2> QED BY Zenon, <2>7, <2>8, <2>9 DEF IdInv
<1> QED BY <1>1, <1>2, <1>3, <1>4, <1>5, <1>6, IdSteps

--------------------------------------------------------------------------------
(* The theorems *)

\* The frontend starts with nothing.
LEMMA InitLifecycle == Init => LifecycleInv
<1> SUFFICES ASSUME Init PROVE LifecycleInv
  OBVIOUS
<1>0. /\ rpc = [p \in Rpc |-> Idle] /\ \A p \in Rpc : rpc[p] = Idle
      /\ Idle.made = {} /\ Idle.pc = "idle"
  BY Zenon DEF Init, Idle
<1>1. LifecycleTypeOK
  <2>1. rpc \in [Rpc -> RpcState]
    BY <1>0, IdleType
  <2>2. NoSession \in SessionState
    BY DEF NoSession, SessionState
  <2> QED BY <2>1, <2>2 DEF Init, LifecycleTypeOK
<1>2. DropInv
  BY Zenon, <1>0 DEF Init, DropInv, NothingOutlivesDrop
<1>3. QuotaInv
  <2>1. {u \in Uri : registered[u] # None} = {}
    BY DEF Init
  <2> QED BY Zenon, <2>1, FS_EmptySet DEF Init, QuotaInv, QuotaIsExact, Registered
<1>4. \A s \in Sid : session[s].life = "new" /\ ~session[s].stale
  BY DEF Init, NoSession
<1>5. FreshInv
  <2>1. 0 \in 0..MaxSid /\ \A s \in Sid : ~(s <= 0)
    BY LifecycleAssumption DEF Sid
  <2>2. \A s \in Sid : session[s].life # "new" <=> s <= 0
    BY <1>4, <2>1
  <2> QED BY Zenon, <1>0, <2>1, <2>2 DEF Init, FreshInv
<1>6. MadeInv
  BY Zenon, <1>0 DEF Init, MadeInv, SessionsAreReturned
<1>7. SweepInv
  BY <1>4 DEF Init, SweepInv
<1>8. CopyInv
  <2>1. Copying = {} /\ Copies = {}
    BY Zenon, <1>0, <1>4 DEF Copying, Copies, At
  <2>2. used = 0 /\ MaxCopies \in Nat
    BY LifecycleAssumption DEF Init
  <2>3. IsFiniteSet(Copying) /\ Cardinality(Copying) = 0 /\ Cardinality(Copies) = 0
    BY <2>1, FS_EmptySet
  <2>4. CopyKinds
    BY Zenon, <1>4, <2>1 DEF CopyKinds
  <2> QED BY <2>2, <2>3, <2>4, CopySum
<1>9. OwnerInv
  <2>1. Idle.kind = None /\ NoSession.kind = None
    BY Zenon DEF Idle, NoSession
  <2> QED BY Zenon, <1>0, <2>1 DEF Init, OwnerInv
<1>10. IdInv
  <2>1. \A u \in Uri, t \in TxnId : mux[<<u, t>>] = None
    BY DEF Init
  <2> QED BY <2>1 DEF Init, IdInv, BegunIsFound
<1> QED BY <1>1, <1>2, <1>3, <1>5, <1>6, <1>7, <1>8, <1>9, <1>10 DEF LifecycleInv

\* No step of a request, a sweep or a destructor breaks the invariant.
LEMMA LifecycleStep == LifecycleInv /\ [Next]_vars => LifecycleInv'
<1> SUFFICES ASSUME LifecycleInv, [Next]_vars PROVE LifecycleInv'
  OBVIOUS
<1>0. /\ LifecycleTypeOK /\ DropInv /\ QuotaInv /\ FreshInv /\ MadeInv /\ SweepInv /\ CopyInv
      /\ OwnerInv /\ IdInv
  BY DEF LifecycleInv
<1>1. LifecycleTypeOK' /\ DropInv' /\ QuotaInv'
  BY <1>0, TypeStep, DropStep, QuotaStep
<1>2. FreshInv' /\ MadeInv' /\ SweepInv' /\ CopyInv'
  BY <1>0, FreshStep, MadeStep, SweepStep, CopyStep
<1>3. OwnerInv' /\ IdInv'
  BY <1>0, OwnerStep, IdStep
<1> QED BY <1>1, <1>2, <1>3 DEF LifecycleInv

\* The inductive invariant of the frontend's collections.
THEOREM LifecycleInvariance == Spec => []LifecycleInv
BY InitLifecycle, LifecycleStep, PTL DEF Spec

\* Once DeleteDatabase has returned, no session, no transaction of a multiplexed
\* session and no operation of the database is left, and requests that found it
\* earlier add none.
THEOREM NothingOutlivesDropTheorem == Spec => []NothingOutlivesDrop
<1>1. LifecycleInv => NothingOutlivesDrop
  BY Zenon DEF LifecycleInv, DropInv
<1> QED BY <1>1, LifecycleInvariance, PTL

\* DatabaseManager's count of an instance's databases is exact.
THEOREM QuotaTheorem == Spec => []QuotaIsExact
<1>1. LifecycleInv => QuotaIsExact
  BY DEF LifecycleInv, QuotaInv
<1> QED BY <1>1, LifecycleInvariance, PTL

\* EphemeralCapacity holds a place for each copy there is or is being made, and
\* never more than it may.
THEOREM CopiesTheorem == Spec => []CopiesAreBounded
<1>1. LifecycleInv => CopiesAreBounded
  BY Zenon DEF LifecycleInv, CopyInv
<1> QED BY <1>1, LifecycleInvariance, PTL

\* A session in the map is known to a client or to the request making it:
\* BatchCreateSessions leaves none behind.
THEOREM SessionsReturnedTheorem == Spec => []SessionsAreReturned
<1>1. LifecycleInv => SessionsAreReturned
  BY Zenon DEF LifecycleInv, MadeInv
<1> QED BY <1>1, LifecycleInvariance, PTL

\* A transaction begun on a multiplexed session is found while its database exists,
\* if the system clock is not set back: the ids of a re-created database are then
\* above those that entries of its predecessor have (Database::Database).
THEOREM BegunTheorem ==
  ASSUME ~SetBack
  PROVE  Spec => []BegunIsFound
<1>1. LifecycleInv => BegunIsFound
  BY DEF LifecycleInv, IdInv
<1> QED BY <1>1, LifecycleInvariance, PTL

\* A session leaves the map by a request of the client, by expiring, or with its
\* own database.
LEMMA SessionsKeptStep ==
  ASSUME LifecycleInv, [Next]_vars, NEW s \in inMap, s \notin inMap'
  PROVE  \/ DatabaseDropped(s)
         \/ session[s].stale
         \/ s \notin returned
         \/ \A p \in Rpc : rpc'[p] = rpc[p] /\ sweeper' = sweeper
<1> USE DEF dbVars, sessionVars, muxVars
<1>0. LifecycleTypeOK /\ DropInv /\ MadeInv /\ SweepInv
  BY DEF LifecycleInv
<1>1. ASSUME NEW p \in Rpc, Request(p) PROVE session[s].stale
  <2>1. PICK x \in Sid : GetSession(p, x)
    BY Zenon, <1>1 DEF Request, CreateDatabase, UpdateDatabaseDdl, CreateSessions, ReleaseDatabase
  <2> QED BY <2>1 DEF GetSession
<1>2. ASSUME NEW p \in Rpc, Step(p) PROVE DatabaseDropped(s) \/ s \notin returned
  <2>1. CASE Cleanup(p)
    <3>1. PICK x \in rpc[p].made : inMap' = inMap \ {x}
      BY <2>1 DEF Cleanup
    <3> QED BY Zenon, <1>0, <3>1 DEF MadeInv
  <2>2. CASE DeleteDatabaseSessions(p)
    <3>1. session[s].db = rpc[p].db /\ rpc[p].pc = "drop sessions"
      BY Zenon, <2>2 DEF DeleteDatabaseSessions, At
    <3> QED BY Zenon, <1>0, <3>1 DEF DropInv, DatabaseDropped
  <2>3. CASE CreateSession(p) \/ FinishCopy(p)
    BY Zenon, <2>3 DEF CreateSession, FinishCopy, Publish
  <2>4. CASE \/ UpdateSchema(p) \/ CreateDatabaseOperation(p) \/ RemoveDatabaseTransactions(p)
             \/ DeleteDatabaseOperations(p) \/ Reserve(p) \/ UndoCopy(p)
             \/ AddToCurrentTransactions(p) \/ EndRequest(p)
    BY Zenon, <2>4 DEF UpdateSchema, CreateDatabaseOperation, RemoveDatabaseTransactions,
       DeleteDatabaseOperations, Reserve, UndoCopy, AddToCurrentTransactions, EndRequest
  <2> QED BY <1>2, <2>1, <2>2, <2>3, <2>4 DEF Step
<1>3. CASE \E x \in Sid : DeleteSession(x)
  BY <1>3 DEF DeleteSession
<1>4. CASE \E x \in Sid : Expire(x) \/ Destroy(x)
  BY Zenon, <1>4 DEF Expire, Destroy, DestroyCopy, ReleaseReservation
<1>5. CASE Sweep
  BY Zenon, <1>0, <1>5 DEF Sweep, StartSweep, FinishSweep, SweepInv
<1>6. CASE \/ \E o \in operations : DeleteOperation(o)
           \/ \E u \in Uri, t \in TxnId : ClearOldTransactions(u, t)
           \/ UNCHANGED vars
  BY Zenon, <1>6 DEF DeleteOperation, ClearOldTransactions, vars
<1> QED BY Zenon, <1>1, <1>2, <1>3, <1>4, <1>5, <1>6 DEF Next

\* A session that a client may use is not taken away by the drop of another
\* database of the same URI, nor by a sweep with an old time.
THEOREM SessionsKeptTheorem == Spec => SessionsAreKept
<1>1. LifecycleInv /\ [Next]_vars =>
        [\A s \in inMap \ inMap' :
           \/ DatabaseDropped(s)
           \/ session[s].stale
           \/ s \notin returned
           \/ \A p \in Rpc : rpc'[p] = rpc[p] /\ sweeper' = sweeper]_vars
  BY SessionsKeptStep
<1> QED BY <1>1, LifecycleInvariance, PTL DEF Spec, SessionsAreKept

================================================================================
