----------------------------- MODULE SessionProofs -----------------------------
(******************************************************************************)
(* Proofs about Session and FrontendTransaction, for any number of requests,  *)
(* transactions, sequence numbers and statements and any limit on the         *)
(* transactions of a session: what commits has every acknowledged statement,  *)
(* statements run once and in order, replays agree, closed transactions stay  *)
(* closed, and no client is told to retry what has committed.                 *)
(******************************************************************************)
EXTENDS Session, TLAPS

--------------------------------------------------------------------------------
(* The inductive invariant *)

\* The statements run in the order of their registered sequence numbers.
RanInv(x) ==
  /\ \A i, j \in 1..Len(x.ran) : i < j => x.ran[i] < x.ran[j]
  /\ \A i \in 1..Len(x.ran) : x.dml[x.ran[i]] # None

\* What is recorded of a DML request is how it was answered.
EntryInv(x, s) ==
  /\ x.dml[s].status = "ok" => x.dml[s].outcome # "empty"
  /\ x.dml[s].outcome \in {"result", "batch"} => s \in x.acked
  /\ x.dml[s].status = "aborted" => /\ x.backend # "committed"
                                    /\ ~(x.status = "ok" /\ Usable(x))
  /\ Boosted = {} /\ x.dml[s].request \in Statements =>
       x.dml[s].outcome \in {"result", "empty"} /\ x.first[s] = SqlReplay(x.dml[s])

ReplayInv(x) == \A s \in Seqno : x.dml[s] # None => EntryInv(x, s)

\* A transaction has written what it committed.  Without schema changes it has
\* buffered what was acknowledged as long as it can go on, and is finished once
\* it is closed.
BackendInv(x) ==
  /\ x.written # None => x.backend = "committed"
  /\ x.status = "aborted" => x.backend # "committed"
  /\ ~SchemaChanges =>
       /\ x.backend = "committed" => x.acked \subseteq x.written
       /\ x.status = "ok" /\ Usable(x) => x.acked \subseteq x.buffered
       /\ x.closed => Finished(x)

TxnInv(x) == x \in Transaction /\ RanInv(x) /\ ReplayInv(x) /\ BackendInv(x)

\* The transactions that exist, those the session knows, and the one in use.
MapInv ==
  /\ multiplexed \in BOOLEAN
  /\ txn \in [Id -> Transaction \cup {None}]
  /\ \A t \in Created : TxnInv(txn[t])
  /\ \E n \in 0..MaxId : Created = 1..n
  /\ map \subseteq Created
  /\ active # None => active \in Created /\ ~multiplexed /\ \A t \in map : t >= active
  /\ ~multiplexed => \A t \in Created \ map : txn[t].closed

\* The transactions that requests hold.
HeldInv ==
  /\ held \in [Rpc -> Id \cup {None}] /\ begins \in [Rpc -> BOOLEAN]
  /\ \A p \in Rpc : held[p] # None => held[p] \in Created

\* The answer just given.
ReplyInv == CommittedIsNotRetried /\ (Boosted = {} => ReplaysAgree)

SessionInv == MapInv /\ HeldInv /\ ReplyInv

--------------------------------------------------------------------------------
(* What the steps of the handlers do to a transaction, field by field *)

\* y has the same client-visible history and the same kind as x.
SameHistory(x, y) ==
  /\ y.type = x.type /\ y.closed = x.closed /\ y.acked = x.acked /\ y.first = x.first

SameDml(x, y) ==
  /\ y.dml = x.dml /\ y.current = x.current /\ y.mode = x.mode /\ y.ran = x.ran

\* An abort resets the backend transaction and nothing else.
LEMMA ResetFields ==
  ASSUME NEW x \in Transaction
  PROVE  LET y == BackendReset(x) IN
         /\ y \in Transaction /\ SameHistory(x, y) /\ SameDml(x, y)
         /\ y.backend = "uninitialized" /\ y.buffered = {}
         /\ y.status = x.status /\ y.written = x.written
<1>1. BackendReset(x) \in Transaction
  BY Zenon DEF BackendReset, Transaction
<1> QED BY <1>1 DEF BackendReset, Transaction, SameHistory, SameDml

\* A statement makes the backend transaction active and adds its writes.
LEMMA ActiveFields ==
  ASSUME NEW x \in Transaction, NEW W \in SUBSET Writes
  PROVE  LET y == BackendActive(x, W) IN
         /\ y \in Transaction /\ SameHistory(x, y) /\ SameDml(x, y)
         /\ y.backend = "active" /\ y.buffered = x.buffered \cup W
         /\ y.status = x.status /\ y.written = x.written
<1>1. BackendActive(x, W) \in Transaction
  BY Zenon DEF BackendActive, Transaction
<1> QED BY <1>1 DEF BackendActive, Transaction, SameHistory, SameDml

\* A commit writes what is buffered.
LEMMA CommittedFields ==
  ASSUME NEW x \in Transaction
  PROVE  LET y == BackendCommitted(x) IN
         /\ y \in Transaction /\ SameHistory(x, y) /\ SameDml(x, y)
         /\ y.backend = "committed" /\ y.buffered = x.buffered
         /\ y.status = x.status /\ y.written = x.buffered
<1>1. BackendCommitted(x) \in Transaction
  BY Zenon DEF BackendCommitted, Transaction
<1> QED BY <1>1 DEF BackendCommitted, Transaction, SameHistory, SameDml

\* A statement that runs is added to the history.
LEMMA RunsFields ==
  ASSUME NEW x \in Transaction, NEW s \in Seqno
  PROVE  LET y == Runs(x, s) IN
         /\ y \in Transaction /\ SameHistory(x, y)
         /\ y.dml = x.dml /\ y.current = x.current /\ y.mode = x.mode
         /\ y.ran = Append(x.ran, s)
         /\ y.backend = x.backend /\ y.buffered = x.buffered
         /\ y.status = x.status /\ y.written = x.written
<1>1. x.ran \in Seq(Seqno)
  BY DEF Transaction
<1>2. Append(x.ran, s) \in Seq(Seqno)
  BY <1>1
<1> DEFINE q == Append(x.ran, s)
<1>3. Runs(x, s) = [x EXCEPT !.ran = q] /\ q \in Seq(Seqno)
  BY <1>2 DEF Runs
<1> HIDE DEF q
<1>4. [x EXCEPT !.ran = q] \in Transaction
  BY Zenon, <1>3 DEF Transaction
<1>5. /\ Runs(x, s) \in Transaction /\ SameHistory(x, Runs(x, s))
      /\ Runs(x, s).ran = q
      /\ \A f \in {"dml", "current", "mode", "backend", "buffered", "status", "written"} :
           Runs(x, s)[f] = x[f]
  BY Zenon, <1>3, <1>4 DEF Transaction, SameHistory
<1> QED BY <1>5 DEF q

SameBackend(x, y) ==
  /\ y.backend = x.backend /\ y.buffered = x.buffered
  /\ y.written = x.written /\ y.status = x.status

\* y differs from x in the entry for s at most.
OtherDml(x, y, s) == \A u \in Seqno : u # s => y.dml[u] = x.dml[u]

\* A new status is all that setting it changes.
LEMMA StatusFields ==
  ASSUME NEW x \in Transaction, NEW a \in {"ok"} \cup Errors
  PROVE  LET y == [x EXCEPT !.status = a] IN
         /\ y \in Transaction /\ SameHistory(x, y) /\ SameDml(x, y)
         /\ y.backend = x.backend /\ y.buffered = x.buffered
         /\ y.status = a /\ y.written = x.written
<1>1. [x EXCEPT !.status = a] \in Transaction
  BY DEF Transaction
<1> QED BY Zenon, <1>1 DEF Transaction, SameHistory, SameDml

\* A change of the entry for s, field by field.
LEMMA EntryFields ==
  ASSUME NEW x \in Transaction, NEW s \in Seqno, NEW e \in DmlEntry
  PROVE  LET y == [x EXCEPT !.dml[s] = e] IN
         /\ y \in Transaction /\ SameHistory(x, y) /\ SameBackend(x, y)
         /\ y.current = x.current /\ y.mode = x.mode /\ y.ran = x.ran
         /\ y.dml[s] = e /\ OtherDml(x, y, s)
<1> DEFINE d == [x.dml EXCEPT ![s] = e]
<1>1. /\ d \in [Seqno -> DmlEntry \cup {None}] /\ d[s] = e
      /\ \A u \in Seqno : u # s => d[u] = x.dml[u]
  BY DEF Transaction
<1>2. [x EXCEPT !.dml[s] = e] = [x EXCEPT !.dml = d]
  BY DEF Transaction
<1> HIDE DEF d
<1>3. [x EXCEPT !.dml = d] \in Transaction
  BY Zenon, <1>1 DEF Transaction
<1>4. [x EXCEPT !.dml = d].dml = d
  BY DEF Transaction
<1>5. SameHistory(x, [x EXCEPT !.dml = d]) /\ SameBackend(x, [x EXCEPT !.dml = d])
  BY DEF Transaction, SameHistory, SameBackend
<1>6. \A f \in {"current", "mode", "ran"} : [x EXCEPT !.dml = d][f] = x[f]
  BY DEF Transaction
<1> QED BY Zenon, <1>1, <1>2, <1>3, <1>4, <1>5, <1>6 DEF OtherDml

\* The entry for s.
HasEntry(x, s, r, a, o) ==
  /\ x.dml[s] # None /\ x.dml[s].request = r /\ x.dml[s].status = a
  /\ x.dml[s].outcome = o

\* The entries that a lookup makes are not None.
LEMMA EntryType ==
  ASSUME NEW r \in Requests, NEW a \in {"ok", "mismatch", "out of order"}
  PROVE  /\ Entry(r, a, "empty") \in DmlEntry /\ Entry(r, a, "empty") # None
         /\ Entry(r, a, "empty").request = r /\ Entry(r, a, "empty").status = a
         /\ Entry(r, a, "empty").outcome = "empty"
<1>1. Entry(r, a, "empty") \in DmlEntry
  BY Zenon DEF Entry, DmlEntry, Errors
<1> QED BY Zenon, <1>1, NoneAssumption DEF Entry

\* An entry with another outcome (SetDmlReplayOutcome).
LEMMA EntryOutcome ==
  ASSUME NEW e \in DmlEntry, NEW o \in {"empty", "result", "batch", "partial"}
  PROVE  LET f == [e EXCEPT !.outcome = o] IN
         /\ f \in DmlEntry /\ f # None /\ f.outcome = o
         /\ f.request = e.request /\ f.status = e.status
<1>1. [e EXCEPT !.outcome = o] \in DmlEntry
  BY DEF DmlEntry
<1> QED BY <1>1, NoneAssumption DEF DmlEntry

\* An entry with another status (SetDmlRequestReplayStatus).
LEMMA EntryStatus ==
  ASSUME NEW e \in DmlEntry, NEW a \in Errors
  PROVE  LET f == [e EXCEPT !.status = a] IN
         /\ f \in DmlEntry /\ f # None /\ f.status = a
         /\ f.request = e.request /\ f.outcome = e.outcome
<1>1. [e EXCEPT !.status = a] \in DmlEntry
  BY DEF DmlEntry
<1> QED BY <1>1, NoneAssumption DEF DmlEntry

\* SetDmlReplayOutcome changes the outcome of the current request's entry.
LEMMA OutcomeFields ==
  ASSUME NEW x \in Transaction, NEW s \in Seqno, x.current = s, x.dml[s] # None,
         x.backend # "invalid", NEW o \in {"empty", "result", "batch", "partial"}
  PROVE  LET y == SetOutcome(x, o) IN
         /\ y \in Transaction /\ SameHistory(x, y) /\ SameBackend(x, y)
         /\ y.current = x.current /\ y.mode = x.mode /\ y.ran = x.ran
         /\ HasEntry(y, s, x.dml[s].request, x.dml[s].status, o) /\ OtherDml(x, y, s)
<1> DEFINE e == [x.dml[s] EXCEPT !.outcome = o]
<1>1. x.dml[s] \in DmlEntry
  BY DEF Transaction
<1>2. /\ e \in DmlEntry /\ e # None /\ e.outcome = o
      /\ e.request = x.dml[s].request /\ e.status = x.dml[s].status
  BY Zenon, <1>1, EntryOutcome
<1>3. SetOutcome(x, o) = [x EXCEPT !.dml[s] = e]
  BY DEF SetOutcome, Transaction
<1> HIDE DEF e
<1>4. LET y == [x EXCEPT !.dml[s] = e] IN
      /\ y \in Transaction /\ SameHistory(x, y) /\ SameBackend(x, y)
      /\ y.current = x.current /\ y.mode = x.mode /\ y.ran = x.ran
      /\ y.dml[s] = e /\ OtherDml(x, y, s)
  BY <1>2, EntryFields
<1> QED BY <1>2, <1>3, <1>4 DEF HasEntry

\* SetDmlRequestReplayStatus changes the status of the current request's entry.
LEMMA ReplayStatusFields ==
  ASSUME NEW x \in Transaction, NEW s \in Seqno, x.current = s, x.dml[s] # None,
         x.mode = "request", NEW a \in Errors
  PROVE  LET y == SetReplayStatus(x, a) IN
         /\ y \in Transaction /\ SameHistory(x, y) /\ SameBackend(x, y)
         /\ y.current = x.current /\ y.mode = x.mode /\ y.ran = x.ran
         /\ HasEntry(y, s, x.dml[s].request, a, x.dml[s].outcome) /\ OtherDml(x, y, s)
<1> DEFINE e == [x.dml[s] EXCEPT !.status = a]
<1>1. x.dml[s] \in DmlEntry /\ s # None
  BY RequestsAssumption DEF Transaction
<1>2. /\ e \in DmlEntry /\ e # None /\ e.status = a
      /\ e.request = x.dml[s].request /\ e.outcome = x.dml[s].outcome
  BY <1>1, EntryStatus
<1>3. SetReplayStatus(x, a) = [x EXCEPT !.dml[s] = e]
  BY <1>1 DEF SetReplayStatus, Transaction
<1> HIDE DEF e
<1>4. LET y == [x EXCEPT !.dml[s] = e] IN
      /\ y \in Transaction /\ SameHistory(x, y) /\ SameBackend(x, y)
      /\ y.current = x.current /\ y.mode = x.mode /\ y.ran = x.ran
      /\ y.dml[s] = e /\ OtherDml(x, y, s)
  BY <1>2, EntryFields
<1> QED BY <1>2, <1>3, <1>4 DEF HasEntry

\* The three answers of LookupOrRegisterDmlRequest: the request is new and
\* registered, is refused, or is known and will be answered again.
Looked(x, s, r, y, state) ==
  /\ y \in Transaction /\ SameHistory(x, y) /\ SameBackend(x, y)
  /\ y.ran = x.ran /\ y.current = s
  /\ \/ /\ state = None /\ x.dml[s] = None /\ y.mode = "request"
        /\ \A u \in Registered(x) : u < s
        /\ HasEntry(y, s, r, "ok", "empty") /\ OtherDml(x, y, s)
     \/ /\ state # None /\ y.mode = "error" /\ y.dml = x.dml
        /\ state.status \in {"mismatch", "out of order"} /\ state.outcome = "empty"
        /\ x.dml[s] = None \/ x.dml[s].request # r
     \/ /\ state # None /\ y.mode = "replay" /\ y.dml = x.dml
        /\ state = x.dml[s] /\ state.request = r

\* LookupOrRegisterDmlRequest has one of these answers.
LEMMA LookupFields ==
  ASSUME NEW x \in Transaction, NEW s \in Seqno, NEW r \in Requests
  PROVE  Looked(x, s, r, Lookup(x, s, r).x, Lookup(x, s, r).state)
<1> DEFINE y(m) == [[x EXCEPT !.current = s] EXCEPT !.mode = m]
           e(a) == Entry(r, a, "empty")
<1>1. ASSUME NEW m \in {"request", "replay", "error"}
      PROVE  /\ y(m) \in Transaction /\ SameHistory(x, y(m)) /\ SameBackend(x, y(m))
             /\ y(m).ran = x.ran /\ y(m).current = s /\ y(m).mode = m /\ y(m).dml = x.dml
  <2>1. [x EXCEPT !.current = s] \in Transaction
    BY DEF Transaction
  <2>2. y(m) \in Transaction
    BY Zenon, <2>1 DEF Transaction
  <2>3. y(m).ran = x.ran /\ y(m).current = s /\ y(m).mode = m /\ y(m).dml = x.dml
    BY DEF Transaction
  <2> QED BY <2>2, <2>3 DEF Transaction, SameHistory, SameBackend
<1>2. ASSUME NEW a \in {"ok", "mismatch", "out of order"}
      PROVE  /\ e(a) \in DmlEntry /\ e(a) # None
             /\ e(a).request = r /\ e(a).status = a /\ e(a).outcome = "empty"
  BY Zenon, EntryType
<1>3. CASE x.dml[s] = None /\ (\E u \in Registered(x) : u > s)
  <2>0. ~(\A u \in Registered(x) : u <= s)
    BY <1>3 DEF Registered, Seqno
  <2> DEFINE f == e("out of order")
  <2>1. Lookup(x, s, r) = [x |-> y("error"), state |-> f]
    BY Zenon, <1>3, <2>0 DEF Lookup
  <2>2. f # None /\ f.status = "out of order" /\ f.outcome = "empty"
    BY Zenon, <1>2
  <2> HIDE DEF y, e, f
  <2>3. Lookup(x, s, r).x = y("error") /\ Lookup(x, s, r).state = f
    BY <2>1
  <2> QED BY Zenon, <1>1, <1>3, <2>2, <2>3 DEF Looked
<1>4. CASE x.dml[s] = None /\ ~(\E u \in Registered(x) : u > s)
  <2>0. (\A u \in Registered(x) : u <= s) /\ (\A u \in Registered(x) : u < s)
    BY <1>4 DEF Registered, Seqno
  <2> DEFINE z == [y("request") EXCEPT !.dml[s] = e("ok")]
  <2>1. Lookup(x, s, r) = [x |-> z, state |-> None]
    <3> DEFINE w == [x EXCEPT !.current = s]
    <3>1. Lookup(x, s, r) =
            [x |-> [w EXCEPT !.mode = "request", !.dml[s] = e("ok")], state |-> None]
      BY <1>4, <2>0 DEF Lookup
    <3>2. w \in Transaction
      BY DEF Transaction
    <3>3. [w EXCEPT !.mode = "request", !.dml[s] = e("ok")] = z
      <4> HIDE DEF w, e
      <4> QED BY <3>2 DEF Transaction, w
    <3> QED BY <3>1, <3>3, Zenon
  <2>2. /\ y("request") \in Transaction
        /\ SameHistory(x, y("request")) /\ SameBackend(x, y("request"))
        /\ y("request").ran = x.ran /\ y("request").current = s
        /\ y("request").mode = "request" /\ y("request").dml = x.dml
    BY <1>1
  <2>3. /\ e("ok") \in DmlEntry /\ e("ok") # None
        /\ e("ok").request = r /\ e("ok").status = "ok" /\ e("ok").outcome = "empty"
    BY Zenon, <1>2
  <2> HIDE DEF y, e
  <2>4. /\ z \in Transaction /\ SameHistory(y("request"), z) /\ SameBackend(y("request"), z)
        /\ z.current = y("request").current /\ z.mode = y("request").mode
        /\ z.ran = y("request").ran
        /\ z.dml[s] = e("ok") /\ OtherDml(y("request"), z, s)
    BY <2>2, <2>3, EntryFields
  <2> HIDE DEF z
  <2>5. Lookup(x, s, r).x = z /\ Lookup(x, s, r).state = None
    BY <2>1
  <2>6. /\ SameHistory(x, z) /\ SameBackend(x, z) /\ OtherDml(x, z, s)
        /\ HasEntry(z, s, r, "ok", "empty")
    BY <2>2, <2>3, <2>4 DEF HasEntry, SameHistory, SameBackend, OtherDml
  <2> QED BY <1>4, <2>0, <2>2, <2>4, <2>5, <2>6 DEF Looked
<1>5. CASE x.dml[s] # None /\ x.dml[s].request # r
  <2>1. Lookup(x, s, r) = [x |-> y("error"), state |-> e("mismatch")]
    BY <1>5 DEF Lookup
  <2>2. Lookup(x, s, r).x = y("error") /\ Lookup(x, s, r).state = e("mismatch")
    BY <2>1
  <2> HIDE DEF y, e
  <2> QED BY Zenon, <1>1, <1>2, <1>5, <2>2 DEF Looked
<1>6. CASE x.dml[s] # None /\ x.dml[s].request = r
  <2>1. Lookup(x, s, r) = [x |-> y("replay"), state |-> x.dml[s]]
    BY <1>6 DEF Lookup
  <2>2. Lookup(x, s, r).x = y("replay") /\ Lookup(x, s, r).state = x.dml[s]
    BY <2>1
  <2> HIDE DEF y, e
  <2> QED BY Zenon, <1>1, <1>6, <2>2 DEF Looked
<1> QED BY <1>3, <1>4, <1>5, <1>6

--------------------------------------------------------------------------------
(* What a request makes of the backend transaction *)

\* The transaction goes on, with its writes.
Keeps(x, y) ==
  /\ y.backend = x.backend \/ (Usable(x) /\ y.backend = "active")
  /\ y.written = x.written /\ y.status = x.status /\ x.buffered \subseteq y.buffered

\* It has committed what it had buffered.
Commits(x, y) ==
  /\ Usable(x) /\ x.status = "ok" /\ y.backend = "committed" /\ y.status = "ok"
  /\ y.written = y.buffered /\ x.buffered \subseteq y.buffered

\* It has lost its writes, if it was not finished, and cannot go on as if nothing
\* had happened, except where a schema change aborts its rollback.
Stops(x, y) ==
  /\ y.backend = x.backend \/ (~Finished(x) /\ y.backend # "committed")
  /\ y.written = x.written
  /\ y.status = "aborted" => y.backend # "committed"
  /\ y.status = "ok" /\ Usable(y) => SchemaChanges /\ x.status = "ok" /\ Usable(x)

\* Before GuardedCall has seen the answer a: a reset is followed by an error that
\* ends the transaction.
Resets(x, y, a) ==
  /\ ~Finished(x) /\ y.backend # "committed" /\ y.written = x.written
  /\ y.status \in {x.status, "failed"}
  /\ \/ a \in {"constraint", "aborted"}
     \/ y.status = "failed"
     \/ ~Usable(y)
     \/ SchemaChanges /\ x.status = "ok" /\ Usable(x)

\* What a rollback of the frontend transaction may leave.
LEMMA RollbackFields ==
  ASSUME NEW x \in Transaction, NEW r \in BackendRollback(x)
  PROVE  /\ r.x \in Transaction /\ SameHistory(x, r.x) /\ SameDml(x, r.x)
         /\ r.x.status = x.status /\ r.x.written = x.written
         /\ \/ Finished(x) /\ r.x.backend = x.backend /\ r.answer = "failed"
            \/ ~Finished(x) /\ r.x.backend = "rolledback" /\ r.answer = "ok"
            \/ /\ SchemaChanges /\ Usable(x) /\ r.x.backend = "uninitialized"
               /\ r.answer = "aborted"
<1>1. CASE Finished(x)
  BY <1>1 DEF BackendRollback, Result, SameHistory, SameDml
<1>2. CASE ~Finished(x)
  <2> DEFINE y == [x EXCEPT !.backend = "rolledback", !.buffered = {}]
  <2>1. /\ y \in Transaction /\ SameHistory(x, y) /\ SameDml(x, y)
        /\ y.status = x.status /\ y.written = x.written /\ y.backend = "rolledback"
    <3>1. y \in Transaction
      BY Zenon DEF Transaction
    <3> QED BY <3>1 DEF Transaction, SameHistory, SameDml
  <2> HIDE DEF y
  <2>2. \/ r = Result(y, "ok")
        \/ SchemaChanges /\ Usable(x) /\ r = Result(BackendReset(x), "aborted")
    BY <1>2 DEF BackendRollback, MayAbort, y
  <2>3. CASE r = Result(y, "ok")
    BY <1>2, <2>1, <2>3 DEF Result
  <2>4. CASE SchemaChanges /\ Usable(x) /\ r = Result(BackendReset(x), "aborted")
    BY <2>4, ResetFields DEF Result
  <2> QED BY <2>2, <2>3, <2>4
<1> QED BY <1>1, <1>2

\* Invalidate takes away the writes of a transaction that could be used.
LEMMA InvalidateFields ==
  ASSUME NEW x \in Transaction, NEW y \in Invalidate(x)
  PROVE  /\ y \in Transaction /\ SameHistory(x, y) /\ SameDml(x, y)
         /\ y.status = x.status /\ y.written = x.written
         /\ \/ y.backend = x.backend
            \/ Usable(x) /\ y.backend \in {"invalid", "uninitialized"}
<1> DEFINE z == [x EXCEPT !.backend = "invalid", !.buffered = {}]
<1>1. /\ z \in Transaction /\ SameHistory(x, z) /\ SameDml(x, z)
      /\ z.status = x.status /\ z.written = x.written /\ z.backend = "invalid"
  <2>1. z \in Transaction
    BY Zenon DEF Transaction
  <2> QED BY <2>1 DEF Transaction, SameHistory, SameDml
<1> HIDE DEF z
<1>2. y = x \/ (Usable(x) /\ y = z) \/ (Usable(x) /\ y = BackendReset(x))
  BY DEF Invalidate, MayAbort, z
<1>3. CASE y = x
  BY <1>3 DEF SameHistory, SameDml
<1>4. CASE Usable(x) /\ y = z
  BY <1>1, <1>4
<1>5. CASE Usable(x) /\ y = BackendReset(x)
  BY <1>5, ResetFields
<1> QED BY <1>2, <1>3, <1>4, <1>5

\* What GuardedCall leaves of the transaction and what it answers.
Called(op, x, z, a, res) ==
  /\ res.answer = a
  /\ res.x \in Transaction /\ SameHistory(x, res.x) /\ res.x.ran = z.ran
  /\ Keeps(x, res.x) \/ Stops(x, res.x) \/ Commits(x, res.x)
  /\ a = "aborted" => res.x.status # "ok" /\ res.x.backend # "committed"
  /\ ~Poisons(op, a) => SameBackend(z, res.x)
  /\ IF /\ op = "dml" /\ IsError(a) /\ z.mode = "request" /\ z.current # None
        /\ z.dml[z.current] # None
       THEN /\ HasEntry(res.x, z.current, z.dml[z.current].request, a,
                        z.dml[z.current].outcome)
            /\ OtherDml(z, res.x, z.current)
       ELSE res.x.dml = z.dml

\* What GuardedCall makes of the answer a of a request that is not a rollback: an
\* error that ends the transaction is kept and takes its writes away, and the
\* error of a DML request that was registered is recorded.
LEMMA AfterCallFields ==
  ASSUME NEW op \in {"dml", "read", "commit"}, NEW x \in Transaction,
         NEW z \in Transaction, NEW a \in OkAnswers \cup Errors, SameHistory(x, z),
         \/ Keeps(x, z)
         \/ Commits(x, z) /\ ~Poisons(op, a)
         \/ Resets(x, z, a),
         a = "aborted" => z.backend # "committed",
         NEW res \in AfterCall(op, Result(z, a))
  PROVE  Called(op, x, z, a, res)
<1> DEFINE inv == IF Poisons(op, a) THEN Invalidate([z EXCEPT !.status = Kept(a)]) ELSE {z}
           rec(w) == IF op = "dml" /\ IsError(a) THEN SetReplayStatus(w, a) ELSE w
<1>1. PICK w \in inv : res.x = rec(w) /\ res.answer = a
  BY DEF AfterCall, Result
<1>2. /\ w \in Transaction /\ SameHistory(z, w) /\ SameDml(z, w)
      /\ w.written = z.written
      /\ w.backend = z.backend \/ (Usable(z) /\ w.backend \in {"invalid", "uninitialized"})
      /\ Poisons(op, a) => w.status = Kept(a) /\ Kept(a) \in Errors
      /\ ~Poisons(op, a) => SameBackend(z, w)
  <2>1. CASE Poisons(op, a)
    <3>1. Kept(a) \in Errors
      BY Zenon, <2>1 DEF Poisons, IsError, Kept, Errors, OkAnswers
    <3> DEFINE v == [z EXCEPT !.status = Kept(a)]
    <3>2. /\ v \in Transaction /\ SameHistory(z, v) /\ SameDml(z, v)
          /\ v.backend = z.backend /\ v.status = Kept(a) /\ v.written = z.written
      BY <3>1, StatusFields
    <3> HIDE DEF v
    <3>3. w \in Invalidate(v)
      BY <1>1, <2>1 DEF v
    <3>4. /\ w \in Transaction /\ SameHistory(v, w) /\ SameDml(v, w)
          /\ w.status = v.status /\ w.written = v.written
          /\ w.backend = v.backend \/ (Usable(v) /\ w.backend \in {"invalid", "uninitialized"})
      BY <3>2, <3>3, InvalidateFields
    <3> QED BY <2>1, <3>1, <3>2, <3>4 DEF SameHistory, SameDml, Usable
  <2>2. CASE ~Poisons(op, a)
    BY <1>1, <2>2 DEF SameHistory, SameDml, SameBackend
  <2> QED BY <2>1, <2>2
<1> HIDE DEF inv
<1>3. /\ rec(w) \in Transaction /\ SameHistory(w, rec(w)) /\ SameBackend(w, rec(w))
      /\ rec(w).ran = w.ran
      /\ IF /\ op = "dml" /\ IsError(a) /\ w.mode = "request" /\ w.current # None
            /\ w.dml[w.current] # None
           THEN /\ HasEntry(rec(w), w.current, w.dml[w.current].request, a,
                            w.dml[w.current].outcome)
                /\ OtherDml(w, rec(w), w.current)
           ELSE rec(w).dml = w.dml
  <2>1. CASE /\ op = "dml" /\ IsError(a) /\ w.mode = "request" /\ w.current # None
             /\ w.dml[w.current] # None
    <3>1. w.current \in Seqno /\ a \in Errors
      BY <1>2, <2>1 DEF Transaction, IsError
    <3>2. rec(w) = SetReplayStatus(w, a)
      BY <2>1
    <3> HIDE DEF rec
    <3> QED BY <1>2, <2>1, <3>1, <3>2, ReplayStatusFields
  <2>2. CASE ~(/\ op = "dml" /\ IsError(a) /\ w.mode = "request" /\ w.current # None
               /\ w.dml[w.current] # None)
    <3>1. rec(w) = w
      BY <2>2 DEF SetReplayStatus
    <3> HIDE DEF rec
    <3> QED BY <1>2, <2>2, <3>1 DEF SameHistory, SameBackend
  <2> QED BY <2>1, <2>2
<1> DEFINE y == rec(w)
<1> HIDE DEF rec, y
<1>4. y = rec(w) /\ res.x = y /\ res.answer = a
  BY <1>1 DEF y
<1>5. /\ y \in Transaction /\ SameHistory(x, y) /\ y.ran = z.ran
      /\ ~Poisons(op, a) => SameBackend(z, y)
  BY <1>2, <1>3, <1>4 DEF SameHistory, SameBackend, SameDml
<1>6. IF /\ op = "dml" /\ IsError(a) /\ z.mode = "request" /\ z.current # None
         /\ z.dml[z.current] # None
        THEN /\ HasEntry(y, z.current, z.dml[z.current].request, a, z.dml[z.current].outcome)
             /\ OtherDml(z, y, z.current)
        ELSE y.dml = z.dml
  BY <1>2, <1>3, <1>4 DEF SameDml, HasEntry, OtherDml
<1>7. CASE ~Poisons(op, a)
  <2>1. a # "aborted" /\ a # "constraint"
    BY <1>7 DEF Poisons, IsError, OkAnswers
  <2>2. Keeps(x, y) \/ Stops(x, y) \/ Commits(x, y)
    BY <1>5, <1>7, <2>1 DEF Keeps, Stops, Commits, Resets, SameBackend, Usable, Finished
  <2> QED BY Zenon, <1>4, <1>5, <1>6, <2>1, <2>2 DEF Called
<1>8. CASE Poisons(op, a)
  <2>1. /\ y.status = Kept(a) /\ y.status # "ok" /\ y.written = z.written
        /\ y.backend = z.backend \/ (Usable(z) /\ y.backend \in {"invalid", "uninitialized"})
    BY Zenon, <1>2, <1>3, <1>4, <1>8 DEF SameBackend, Errors
  <2>2. /\ y.status = "aborted" => a = "aborted"
        /\ a = "aborted" => y.backend # "committed"
    BY <2>1 DEF Kept, Usable
  <2>3. Stops(x, y)
    BY <1>8, <2>1, <2>2 DEF Stops, Keeps, Resets, Usable, Finished
  <2> QED BY Zenon, <1>4, <1>5, <1>6, <1>8, <2>1, <2>2, <2>3 DEF Called
<1> QED BY <1>7, <1>8

--------------------------------------------------------------------------------
(* The handlers, before GuardedCall has seen their answers *)

Pre(op, x, z, a) ==
  /\ z \in Transaction /\ a \in OkAnswers \cup Errors /\ SameHistory(x, z)
  /\ \/ Keeps(x, z)
     \/ Commits(x, z) /\ ~Poisons(op, a)
     \/ Resets(x, z, a)
  /\ a = "aborted" => z.backend # "committed"

\* GuardedCall after a handler that kept to Pre.
LEMMA CallFields ==
  ASSUME NEW op \in {"dml", "read", "commit"}, NEW x \in Transaction, NEW z, NEW a,
         Pre(op, x, z, a), NEW res \in AfterCall(op, Result(z, a))
  PROVE  a \in OkAnswers \cup Errors /\ Called(op, x, z, a, res)
<1>1. /\ z \in Transaction /\ a \in OkAnswers \cup Errors /\ SameHistory(x, z)
      /\ \/ Keeps(x, z)
         \/ Commits(x, z) /\ ~Poisons(op, a)
         \/ Resets(x, z, a)
      /\ a = "aborted" => z.backend # "committed"
  BY Zenon DEF Pre
<1> QED BY <1>1, AfterCallFields

\* The ways in which a statement fails.
LEMMA FailsFields ==
  ASSUME NEW x \in Transaction, Usable(x), NEW r \in StatementFails(x)
  PROVE  /\ r.x \in Transaction /\ SameHistory(x, r.x) /\ SameDml(x, r.x)
         /\ r.x.backend # "committed"
         /\ \/ r.answer = "failed" /\ Keeps(x, r.x)
            \/ r.answer \in {"constraint", "aborted"} /\ Resets(x, r.x, r.answer)
<1>1. \/ r = Result(x, "failed") \/ r = Result(BackendActive(x, {}), "failed")
      \/ r = Result(BackendReset(x), "constraint") \/ r = Result(BackendReset(x), "aborted")
  BY DEF StatementFails
<1>2. CASE r = Result(x, "failed")
  BY <1>2 DEF Result, SameHistory, SameDml, Keeps, Usable
<1>3. CASE r = Result(BackendActive(x, {}), "failed")
  BY <1>3, ActiveFields DEF Result, Keeps
<1>4. CASE r = Result(BackendReset(x), "constraint") \/ r = Result(BackendReset(x), "aborted")
  BY <1>4, ResetFields DEF Result, Resets, Usable, Finished
<1> QED BY <1>1, <1>2, <1>3, <1>4

\* What a request that fails leaves, whether it rolls back or not.
RollsBack(x, z, a, r) ==
  /\ r.answer = a /\ r.x \in Transaction /\ SameHistory(x, r.x) /\ SameDml(z, r.x)
  /\ r.x.backend # "committed"
  /\ Keeps(x, r.x) \/ Resets(x, r.x, a)

\* A request that began its transaction rolls it back when it fails.
LEMMA RolledBackFields ==
  ASSUME NEW x \in Transaction, Usable(x), x.status = "ok",
         NEW z \in Transaction, SameHistory(x, z), z.backend # "committed", NEW a,
         Keeps(x, z) \/ Resets(x, z, a),
         NEW b \in BOOLEAN, NEW r \in RolledBackIf(b, Result(z, a))
  PROVE  RollsBack(x, z, a, r)
<1>1. CASE r = Result(z, a)
  BY <1>1 DEF RollsBack, Result, SameDml
<1>2. ASSUME NEW y \in BackendRollback(z), r = Result(y.x, a)
      PROVE  RollsBack(x, z, a, r)
  <2>1. /\ y.x \in Transaction /\ SameHistory(z, y.x) /\ SameDml(z, y.x)
        /\ y.x.status = z.status /\ y.x.written = z.written
        /\ \/ Finished(z) /\ y.x.backend = z.backend
           \/ y.x.backend = "rolledback"
           \/ SchemaChanges /\ y.x.backend = "uninitialized"
    BY RollbackFields
  <2>2. r.x = y.x /\ r.answer = a
    BY <1>2 DEF Result
  <2>3. SameHistory(x, y.x) /\ y.x.backend # "committed"
    BY <2>1 DEF SameHistory
  <2>4. Resets(x, y.x, a)
    BY <2>1 DEF Keeps, Resets, Usable, Finished
  <2> QED BY <2>1, <2>2, <2>3, <2>4 DEF RollsBack
<1>3. r = Result(z, a) \/ \E y \in BackendRollback(z) : r = Result(y.x, a)
  BY DEF RolledBackIf, RollbackCall, Result
<1> QED BY <1>1, <1>2, <1>3

\* The answer to a DML request that was already registered, or is refused for its
\* sequence number or because it is not the request that was registered.
Replayed(x, s, r, z, a) ==
  /\ z.dml = x.dml /\ z.ran = x.ran /\ z.mode # "request"
  /\ a \in {"result", "batch"} => s \in x.acked
  /\ r \in Statements /\ x.dml[s] # None /\ x.dml[s].request = r => a = SqlReplay(x.dml[s])

\* The answer to a DML request that is registered with it.
Served(x, s, r, z, a) ==
  /\ x.dml[s] = None /\ (\A u \in Registered(x) : u < s)
  /\ z.current = s /\ z.mode = "request" /\ OtherDml(x, z, s)
  /\ HasEntry(z, s, r, "ok", IF IsError(a) THEN "empty" ELSE a)
  /\ z.ran = x.ran \/ z.ran = Append(x.ran, s)
  /\ a \in Errors \cup (IF r \in Statements THEN {"result"} ELSE {"batch", "partial"})
  /\ a \in {"result", "batch"} =>
       s \in z.buffered /\ (Commits(x, z) \/ (Keeps(x, z) /\ Usable(z)))

DmlPre(x, s, r, z, a) ==
  /\ Pre("dml", x, z, a)
  /\ \/ Replayed(x, s, r, z, a)
     \/ Served(x, s, r, z, a)
     \/ Boosted # {} /\ z = x /\ a = "data boost"

\* The checks between the registration and the statement let through what can
\* be used.
LEMMA RefusalFields ==
  ASSUME NEW x \in Transaction
  PROVE  /\ Refusal(x) = "ok" => x.status = "ok" /\ Usable(x)
         /\ Refusal(x) # "ok" => Refusal(x) \in Errors
         /\ Refusal(x) = "aborted" => x.status = "aborted"
<1>1. /\ x.status \in {"ok"} \cup Errors
      /\ x.backend \in {"uninitialized", "active", "committed", "rolledback", "invalid"}
  BY DEF Transaction
<1>2. CASE x.status # "ok"
  <2>1. Refusal(x) = x.status
    BY <1>2 DEF Refusal
  <2> QED BY <1>1, <1>2, <2>1
<1>3. CASE x.status = "ok" /\ x.backend = "invalid"
  BY <1>3 DEF Refusal, Errors
<1>4. CASE x.status = "ok" /\ Finished(x)
  BY <1>4 DEF Refusal, Errors, Finished
<1>5. CASE x.status = "ok" /\ Usable(x)
  BY <1>5 DEF Refusal, Usable, Finished
<1> QED BY <1>1, <1>2, <1>3, <1>4, <1>5 DEF Finished, Usable

\* A statement that succeeds has run and its writes are buffered.
LEMMA RunFields ==
  ASSUME NEW x \in Transaction, NEW s \in Seqno
  PROVE  LET y == BackendActive(Runs(x, s), {s}) IN
         /\ y \in Transaction /\ SameHistory(x, y)
         /\ y.dml = x.dml /\ y.current = x.current /\ y.mode = x.mode
         /\ y.ran = Append(x.ran, s) /\ y.backend = "active"
         /\ y.buffered = x.buffered \cup {s} /\ y.status = x.status /\ y.written = x.written
<1>1. /\ Runs(x, s) \in Transaction /\ SameHistory(x, Runs(x, s))
      /\ Runs(x, s).dml = x.dml /\ Runs(x, s).current = x.current
      /\ Runs(x, s).mode = x.mode /\ Runs(x, s).ran = Append(x.ran, s)
      /\ Runs(x, s).buffered = x.buffered
      /\ Runs(x, s).status = x.status /\ Runs(x, s).written = x.written
  BY RunsFields
<1>2. {s} \in SUBSET Writes
  BY DEF Writes
<1> DEFINE w == Runs(x, s)
           y == BackendActive(w, {s})
<1> HIDE DEF w
<1>3. /\ y \in Transaction /\ SameHistory(w, y) /\ SameDml(w, y)
      /\ y.backend = "active" /\ y.buffered = w.buffered \cup {s}
      /\ y.status = w.status /\ y.written = w.written
  BY <1>1, <1>2, ActiveFields DEF w
<1> HIDE DEF y
<1> QED BY Zenon, <1>1, <1>3 DEF SameHistory, SameDml, w, y

\* A request that is refused or answered again by a lookup of x that has found z.
LEMMA ReplaySql ==
  ASSUME NEW x, TxnInv(x), NEW s \in Seqno, NEW r \in Statements,
         Lookup(x, s, r).state # None
  PROVE  DmlPre(x, s, r, Lookup(x, s, r).x, SqlReplay(Lookup(x, s, r).state))
<1> DEFINE z     == Lookup(x, s, r).x
           state == Lookup(x, s, r).state
           a     == SqlReplay(state)
<1>0. x \in Transaction /\ r \in Requests
  BY DEF TxnInv, Requests
<1>1. /\ z \in Transaction /\ SameHistory(x, z) /\ SameBackend(x, z) /\ z.ran = x.ran
      /\ z.dml = x.dml /\ z.mode # "request"
      /\ \/ /\ state.status \in {"mismatch", "out of order"}
            /\ x.dml[s] = None \/ x.dml[s].request # r
         \/ state = x.dml[s] /\ state # None
  <2>1. Looked(x, s, r, z, state) /\ state # None
    BY <1>0, LookupFields
  <2> HIDE DEF z, state
  <2> QED BY Zenon, <2>1 DEF Looked
<1> HIDE DEF z, state
<1>2. Keeps(x, z)
  BY Zenon, <1>1 DEF SameBackend, Keeps
<1>3. CASE /\ state.status \in {"mismatch", "out of order"}
           /\ x.dml[s] = None \/ x.dml[s].request # r
  <2>1. a \in Errors /\ a # "aborted" /\ a \notin {"result", "batch"}
    BY Zenon, <1>3 DEF SqlReplay, Errors
  <2> QED BY Zenon, <1>1, <1>2, <1>3, <2>1 DEF DmlPre, Pre, Replayed, z, state
<1>4. CASE state = x.dml[s] /\ state # None
  <2>1. /\ x.dml[s] \in DmlEntry
        /\ state.status = "ok" => state.outcome # "empty"
        /\ state.outcome \in {"result", "batch"} => s \in x.acked
        /\ state.status = "aborted" => x.backend # "committed"
    BY <1>0, <1>4 DEF TxnInv, ReplayInv, EntryInv, Transaction
  <2>2. state.status \in {"ok"} \cup Errors
    BY <1>4, <2>1 DEF DmlEntry
  <2>3. CASE state.status # "ok"
    <3>1. a = state.status /\ a \in Errors /\ a \notin {"result", "batch"}
      BY Zenon, <2>2, <2>3 DEF SqlReplay, Errors
    <3> QED BY Zenon, <1>1, <1>2, <1>4, <2>1, <3>1 DEF DmlPre, Pre, Replayed, SameBackend, z, state
  <2>4. CASE state.status = "ok"
    <3>1. a \in {"result", "mismatch"} /\ (a = "result" => state.outcome = "result")
      BY <2>1, <2>4 DEF SqlReplay
    <3> QED BY Zenon, <1>1, <1>2, <1>4, <2>1, <3>1
            DEF DmlPre, Pre, Replayed, SameBackend, OkAnswers, Errors, z, state
  <2> QED BY <2>3, <2>4
<1> QED BY Zenon, <1>1, <1>3, <1>4

\* A statement that runs in a transaction that has registered its request.
LEMMA StatementPre ==
  ASSUME NEW x \in Transaction, NEW s \in Seqno, NEW r \in Statements,
         NEW z, Looked(x, s, r, z, None), x.dml[s] = None,
         x.status = "ok", Usable(x), NEW b \in BOOLEAN,
         NEW e \in ExecuteStatement(z, s), NEW res \in SqlResult(e, b)
  PROVE  DmlPre(x, s, r, res.x, res.answer)
<1>1. /\ z \in Transaction /\ SameHistory(x, z) /\ SameBackend(x, z)
      /\ z.ran = x.ran /\ z.current = s /\ z.mode = "request"
      /\ \A u \in Registered(x) : u < s
      /\ HasEntry(z, s, r, "ok", "empty") /\ OtherDml(x, z, s)
      /\ z.status = "ok" /\ Usable(z)
  BY DEF Looked, SameBackend, Usable
<1>2. ASSUME NEW f \in StatementFails(z), NEW a \in {"failed", "constraint", "aborted"},
             f.answer \in {a, "failed"}, a = "failed" => f.answer = "failed",
             NEW y \in RolledBackIf(b, Result(f.x, a))
      PROVE  DmlPre(x, s, r, y.x, y.answer)
  <2>1. /\ f.x \in Transaction /\ SameHistory(z, f.x) /\ SameDml(z, f.x)
        /\ f.x.backend # "committed"
        /\ Keeps(z, f.x) \/ Resets(z, f.x, f.answer)
    BY <1>1, FailsFields
  <2>2. Keeps(z, f.x) \/ Resets(z, f.x, a)
    BY <1>2, <2>1 DEF Resets
  <2>3. /\ y.answer = a /\ y.x \in Transaction /\ SameHistory(z, y.x) /\ SameDml(f.x, y.x)
        /\ y.x.backend # "committed"
        /\ Keeps(z, y.x) \/ Resets(z, y.x, a)
    <3>1. z \in Transaction /\ Usable(z) /\ z.status = "ok"
      BY <1>1
    <3>2. RollsBack(z, f.x, a, y)
      BY <1>2, <2>1, <2>2, <3>1, RolledBackFields
    <3> QED BY Zenon, <3>2 DEF RollsBack
  <2>4. SameHistory(x, y.x) /\ (Keeps(x, y.x) \/ Resets(x, y.x, a))
    BY <1>1, <2>3 DEF SameHistory, SameBackend, Keeps, Resets, Usable, Finished
  <2>5. IsError(a) /\ a \in Errors
    BY Zenon DEF IsError, OkAnswers, Errors
  <2>6. Served(x, s, r, y.x, a)
    <3>1. /\ y.x.dml = z.dml /\ y.x.current = s /\ y.x.mode = "request" /\ y.x.ran = x.ran
      BY <1>1, <2>1, <2>3 DEF SameDml
    <3>2. HasEntry(y.x, s, r, "ok", "empty") /\ OtherDml(x, y.x, s)
      BY <1>1, <3>1 DEF HasEntry, OtherDml
    <3> QED BY <1>1, <2>5, <3>1, <3>2 DEF Served
  <2> QED BY <2>3, <2>4, <2>5, <2>6 DEF DmlPre, Pre
<1>3. ASSUME NEW y \in Transaction, SameHistory(z, y), y.dml = z.dml, y.current = s,
             y.mode = "request", y.ran = Append(z.ran, s), s \in y.buffered,
             y.backend # "invalid", Commits(z, y) \/ (Keeps(z, y) /\ Usable(y)),
             res \in SqlResult(Result(y, "result"), b)
      PROVE  DmlPre(x, s, r, res.x, res.answer)
  <2>1. res = Result(SetOutcome(y, "result"), "result") \/ res = Result(y, "failed")
    BY <1>3 DEF SqlResult, Result, IsError, OkAnswers
  <2>2. SameHistory(x, y) /\ (Commits(x, y) \/ (Keeps(x, y) /\ Usable(y)))
    BY <1>1, <1>3 DEF SameHistory, SameBackend, Commits, Keeps, Usable
  <2>3. HasEntry(y, s, r, "ok", "empty") /\ OtherDml(x, y, s)
    BY <1>1, <1>3 DEF HasEntry, OtherDml
  <2>4. CASE res = Result(y, "failed")
    <3>1. res.x = y /\ res.answer = "failed" /\ IsError("failed") /\ "failed" \in Errors
      BY <2>4 DEF Result, IsError, OkAnswers, Errors
    <3>2. ~Poisons("dml", "failed")
      BY DEF Poisons
    <3>3. Served(x, s, r, y, "failed")
      BY <1>1, <1>3, <2>3, <3>1 DEF Served
    <3> QED BY <1>3, <2>2, <3>1, <3>2, <3>3 DEF DmlPre, Pre
  <2>5. CASE res = Result(SetOutcome(y, "result"), "result")
    <3> DEFINE w == SetOutcome(y, "result")
    <3>1. /\ w \in Transaction /\ SameHistory(y, w) /\ SameBackend(y, w)
          /\ w.current = y.current /\ w.mode = y.mode /\ w.ran = y.ran
          /\ HasEntry(w, s, y.dml[s].request, y.dml[s].status, "result") /\ OtherDml(y, w, s)
      <4>1. y.dml[s] # None /\ "result" \in {"empty", "result", "batch", "partial"}
        BY <2>3 DEF HasEntry
      <4> QED BY Zenon, <1>3, <4>1, OutcomeFields
    <3> HIDE DEF w
    <3>2. /\ res.x = w /\ res.answer = "result" /\ ~IsError("result")
          /\ ~Poisons("dml", "result") /\ "result" \in OkAnswers
      BY <2>5 DEF Result, IsError, OkAnswers, Poisons, w
    <3>3. SameHistory(x, w) /\ (Commits(x, w) \/ (Keeps(x, w) /\ Usable(w)))
      BY <2>2, <3>1 DEF SameHistory, SameBackend, Commits, Keeps, Usable
    <3>4. HasEntry(w, s, r, "ok", "result") /\ OtherDml(x, w, s) /\ s \in w.buffered
      BY <1>3, <2>3, <3>1 DEF HasEntry, OtherDml, SameBackend
    <3>5. Served(x, s, r, w, "result")
      BY Zenon, <1>1, <1>3, <3>1, <3>2, <3>3, <3>4 DEF Served
    <3> QED BY Zenon, <3>1, <3>2, <3>3, <3>5 DEF DmlPre, Pre
  <2> QED BY <2>1, <2>4, <2>5
<1> DEFINE w == BackendActive(Runs(z, s), {s})
<1>4. /\ w \in Transaction /\ SameHistory(z, w)
      /\ w.dml = z.dml /\ w.current = z.current /\ w.mode = z.mode
      /\ w.ran = Append(z.ran, s) /\ w.backend = "active"
      /\ w.buffered = z.buffered \cup {s} /\ w.status = z.status /\ w.written = z.written
  BY Zenon, <1>1, RunFields
<1> HIDE DEF w
<1>5. CASE e = Result(w, "result")
  <2>1. Keeps(z, w) /\ Usable(w)
    BY <1>1, <1>4 DEF Keeps, Usable
  <2> QED BY <1>1, <1>3, <1>4, <1>5, <2>1
<1>6. CASE e = Result(BackendCommitted(w), "result")
  <2> DEFINE c == BackendCommitted(w)
  <2>1. /\ c \in Transaction /\ SameHistory(w, c) /\ SameDml(w, c)
        /\ c.backend = "committed" /\ c.buffered = w.buffered
        /\ c.status = w.status /\ c.written = w.buffered
    BY Zenon, <1>4, CommittedFields
  <2> HIDE DEF c
  <2>2. Commits(z, c) /\ SameHistory(z, c)
    BY <1>1, <1>4, <2>1 DEF Commits, SameHistory
  <2> QED BY Zenon, <1>1, <1>3, <1>4, <1>6, <2>1, <2>2 DEF SameDml, c
<1>7. ASSUME NEW f \in StatementFails(z), NEW a \in {"failed", "constraint", "aborted"},
             f.answer \in {a, "failed"}, a = "failed" => f.answer = "failed",
             e = Result(f.x, a)
      PROVE  DmlPre(x, s, r, res.x, res.answer)
  <2>1. IsError(a)
    BY DEF IsError, OkAnswers
  <2>2. res \in RolledBackIf(b, e)
    BY <1>7, <2>1 DEF SqlResult, Result
  <2> QED BY <1>2, <1>7, <2>2
<1>8. CASE z.type = "rw"
  <2>1. e = Result(w, "result") \/ e \in StatementFails(z)
    BY <1>8 DEF ExecuteStatement, w
  <2>2. CASE e \in StatementFails(z)
    <3>1. e.answer \in {"failed", "constraint", "aborted"} /\ e = Result(e.x, e.answer)
      BY <2>2 DEF StatementFails, Result
    <3> QED BY <1>7, <2>2, <3>1
  <2> QED BY <1>5, <2>1, <2>2
<1>9. CASE z.type # "rw"
  <2>1. \/ e = Result(BackendCommitted(w), "result")
        \/ \E f \in StatementFails(z) :
             e = Result(f.x, IF f.answer = "aborted" THEN "aborted" ELSE "constraint")
    BY <1>9 DEF ExecuteStatement, w
  <2>2. ASSUME NEW f \in StatementFails(z),
               e = Result(f.x, IF f.answer = "aborted" THEN "aborted" ELSE "constraint")
        PROVE  DmlPre(x, s, r, res.x, res.answer)
    <3>1. f.answer \in {"failed", "constraint", "aborted"}
      BY DEF StatementFails, Result
    <3>2. CASE f.answer = "aborted"
      BY <1>7, <2>2, <3>2
    <3>3. CASE f.answer # "aborted"
      BY <1>7, <2>2, <3>1, <3>3
    <3> QED BY <3>2, <3>3
  <2> QED BY <1>6, <2>1, <2>2
<1> QED BY <1>8, <1>9

\* A request that is registered and refused since the transaction cannot go on.
LEMMA RefusedPre ==
  ASSUME NEW x, TxnInv(x), NEW s \in Seqno, NEW r \in Requests,
         NEW z, Looked(x, s, r, z, None), Refusal(z) # "ok"
  PROVE  DmlPre(x, s, r, z, Refusal(z))
<1> DEFINE a == Refusal(z)
<1>1. a \in Errors /\ (a = "aborted" => z.status = "aborted")
  BY RefusalFields DEF Looked
<1> HIDE DEF a
<1>2. IsError(a) /\ a \notin {"result", "batch"}
  BY Zenon, <1>1 DEF IsError, OkAnswers, Errors
<1>3. Keeps(x, z) /\ (a = "aborted" => z.backend # "committed")
  BY <1>1 DEF Looked, SameBackend, Keeps, TxnInv, BackendInv
<1>4. Served(x, s, r, z, a)
  BY <1>1, <1>2 DEF Looked, Served
<1>5. DmlPre(x, s, r, z, a)
  BY <1>1, <1>3, <1>4 DEF Looked, DmlPre, Pre
<1> QED BY <1>5 DEF a

\* ExecuteSql and ExecuteStreamingSql with a DML statement.
LEMMA SqlPre ==
  ASSUME NEW x, TxnInv(x), NEW s \in Seqno, NEW r \in Statements, NEW b \in BOOLEAN,
         NEW res \in ExecuteSql(x, s, r, b)
  PROVE  DmlPre(x, s, r, res.x, res.answer)
<1> DEFINE z     == Lookup(x, s, r).x
           state == Lookup(x, s, r).state
<1>0. x \in Transaction /\ r \in Requests
  BY DEF TxnInv, Requests
<1>1. Looked(x, s, r, z, state)
  BY <1>0, LookupFields
<1>2. CASE r \in Boosted
  <2>1. res = Result(x, "data boost")
    BY Zenon, <1>2 DEF ExecuteSql
  <2>2. res.x = x /\ res.answer = "data boost"
    BY Zenon, <2>1 DEF Result
  <2>3. Keeps(x, x) /\ SameHistory(x, x)
    BY DEF Keeps, SameHistory
  <2> QED BY Zenon, <1>0, <1>2, <2>2, <2>3 DEF DmlPre, Pre, Errors
<1>3. CASE r \notin Boosted /\ state # None
  <2>1. res = Result(z, SqlReplay(state))
    BY <1>3 DEF ExecuteSql
  <2>2. res.x = z /\ res.answer = SqlReplay(state)
    BY <2>1 DEF Result
  <2> QED BY <1>3, <2>2, ReplaySql
<1>4. CASE r \notin Boosted /\ state = None /\ Refusal(z) # "ok"
  <2>1. res = Result(z, Refusal(z))
    BY <1>4 DEF ExecuteSql
  <2> DEFINE a == Refusal(z)
  <2>2. res.x = z /\ res.answer = a
    BY <2>1 DEF Result
  <2> HIDE DEF z, state, a
  <2>3. Looked(x, s, r, z, None) /\ a = Refusal(z) /\ Refusal(z) # "ok"
    BY <1>1, <1>4 DEF a
  <2> QED BY <1>0, <2>2, <2>3, RefusedPre
<1>5. CASE r \notin Boosted /\ state = None /\ Refusal(z) = "ok"
  <2>1. PICK e \in ExecuteStatement(z, s) : res \in SqlResult(e, b)
    BY <1>5 DEF ExecuteSql
  <2> HIDE DEF z, state
  <2>2. z.status = "ok" /\ Usable(z)
    BY <1>1, <1>5, RefusalFields DEF Looked
  <2>3. x.status = "ok" /\ Usable(x) /\ x.dml[s] = None
    BY <1>1, <1>5, <2>2 DEF Looked, SameBackend, Usable
  <2> QED BY <1>0, <1>1, <1>5, <2>1, <2>3, StatementPre
<1> QED BY <1>2, <1>3, <1>4, <1>5

BatchAnswers == {"batch", "partial"}

\* w differs from y in that the batch s is recorded as answered with a.
BatchRecorded(x, y, s, r, a, w) ==
  /\ w \in Transaction /\ SameHistory(x, w) /\ SameBackend(y, w)
  /\ w.current = s /\ w.mode = "request" /\ w.ran = y.ran
  /\ HasEntry(w, s, r, "ok", a) /\ OtherDml(x, w, s)

\* The entry of a batch that has run, in full or in part.
LEMMA BatchOutcome ==
  ASSUME NEW x, NEW s \in Seqno, NEW r \in Batches, NEW y \in Transaction,
         SameHistory(x, y), y.current = s, y.mode = "request", y.backend # "invalid",
         HasEntry(y, s, r, "ok", "empty"), OtherDml(x, y, s),
         NEW a \in BatchAnswers
  PROVE  BatchRecorded(x, y, s, r, a, SetOutcome(y, a))
<1> DEFINE w == SetOutcome(y, a)
<1>1. y.dml[s] # None /\ a \in {"empty", "result", "batch", "partial"}
  BY DEF HasEntry, BatchAnswers
<1>2. /\ w \in Transaction /\ SameHistory(y, w) /\ SameBackend(y, w)
      /\ w.current = y.current /\ w.mode = y.mode /\ w.ran = y.ran
      /\ HasEntry(w, s, y.dml[s].request, y.dml[s].status, a) /\ OtherDml(y, w, s)
  BY <1>1, OutcomeFields
<1> HIDE DEF w
<1>3. BatchRecorded(x, y, s, r, a, w)
  BY <1>2 DEF BatchRecorded, SameHistory, HasEntry, OtherDml
<1> QED BY <1>3 DEF w

\* Such a batch is answered as it is recorded.
LEMMA BatchServed ==
  ASSUME NEW x \in Transaction, NEW s \in Seqno, NEW r \in Batches,
         x.dml[s] = None, \A u \in Registered(x) : u < s,
         NEW w \in Transaction, SameHistory(x, w), w.current = s, w.mode = "request",
         w.ran = x.ran \/ w.ran = Append(x.ran, s), OtherDml(x, w, s),
         NEW a \in BatchAnswers, HasEntry(w, s, r, "ok", a),
         Keeps(x, w) \/ Resets(x, w, a),
         a = "batch" => s \in w.buffered /\ Keeps(x, w) /\ Usable(w)
  PROVE  DmlPre(x, s, r, w, a)
<1>1. ~IsError(a) /\ a \in OkAnswers /\ a # "aborted" /\ a # "result" /\ r \notin Statements
  BY RequestsAssumption DEF IsError, OkAnswers, BatchAnswers
<1>2. Served(x, s, r, w, a)
  BY Zenon, <1>1 DEF Served, BatchAnswers
<1> QED BY Zenon, <1>1, <1>2 DEF DmlPre, Pre

\* A batch that runs in a transaction that has registered its request.
LEMMA BatchPreRuns ==
  ASSUME NEW x \in Transaction, NEW s \in Seqno, NEW r \in Batches,
         NEW z, Looked(x, s, r, z, None), x.dml[s] = None,
         x.status = "ok", Usable(x), NEW b \in BOOLEAN,
         NEW res \in {Result(SetOutcome(BackendActive(Runs(z, s), {s}), "batch"), "batch"),
                      Result(BackendReset(z), "aborted")} \cup BatchFails(z, s, b)
  PROVE  DmlPre(x, s, r, res.x, res.answer)
<1>1. /\ z \in Transaction /\ SameHistory(x, z) /\ SameBackend(x, z)
      /\ z.ran = x.ran /\ z.current = s /\ z.mode = "request"
      /\ \A u \in Registered(x) : u < s
      /\ HasEntry(z, s, r, "ok", "empty") /\ OtherDml(x, z, s)
      /\ z.status = "ok" /\ Usable(z) /\ z.backend # "invalid"
  BY DEF Looked, SameBackend, Usable
<1> DEFINE w == BackendActive(Runs(z, s), {s})
           n == BackendReset(z)
<1>2. /\ w \in Transaction /\ SameHistory(x, w) /\ w.current = s /\ w.mode = "request"
      /\ w.ran = Append(x.ran, s) /\ w.backend = "active" /\ s \in w.buffered
      /\ HasEntry(w, s, r, "ok", "empty") /\ OtherDml(x, w, s) /\ Keeps(x, w)
  <2>1. /\ w \in Transaction /\ SameHistory(z, w)
        /\ w.dml = z.dml /\ w.current = z.current /\ w.mode = z.mode
        /\ w.ran = Append(z.ran, s) /\ w.backend = "active"
        /\ w.buffered = z.buffered \cup {s} /\ w.status = z.status /\ w.written = z.written
    BY Zenon, <1>1, RunFields
  <2> HIDE DEF w
  <2> QED BY <1>1, <2>1 DEF SameHistory, SameBackend, HasEntry, OtherDml, Keeps, Usable
<1>3. /\ n \in Transaction /\ SameHistory(x, n) /\ n.current = s /\ n.mode = "request"
      /\ n.ran = x.ran /\ n.backend = "uninitialized" /\ n.dml = z.dml
      /\ n.written = x.written /\ n.status = x.status
      /\ HasEntry(n, s, r, "ok", "empty") /\ OtherDml(x, n, s)
  <2>1. /\ n \in Transaction /\ SameHistory(z, n) /\ SameDml(z, n)
        /\ n.backend = "uninitialized" /\ n.status = z.status /\ n.written = z.written
    BY Zenon, <1>1, ResetFields
  <2> HIDE DEF n
  <2> QED BY Zenon, <1>1, <2>1 DEF SameHistory, SameBackend, SameDml, HasEntry, OtherDml
<1> HIDE DEF w, n
<1>4. ASSUME NEW a \in BatchAnswers, res = Result(SetOutcome(w, a), a)
      PROVE  DmlPre(x, s, r, res.x, res.answer)
  <2> DEFINE y == SetOutcome(w, a)
  <2>1. BatchRecorded(x, w, s, r, a, y)
    <3>1. w.backend # "invalid" /\ w \in Transaction /\ SameHistory(x, w)
      BY Zenon, <1>2
    <3> QED BY Zenon, <1>2, <3>1, BatchOutcome
  <2> HIDE DEF y
  <2>2. Keeps(x, y) /\ Usable(y) /\ s \in y.buffered
    BY Zenon, <1>2, <2>1 DEF BatchRecorded, SameBackend, Keeps, Usable
  <2>3. res.x = y /\ res.answer = a
    BY Zenon, <1>4 DEF Result, y
  <2> QED BY Zenon, <1>1, <1>2, <2>1, <2>2, <2>3, BatchServed DEF BatchRecorded
<1>5. CASE res = Result(n, "aborted")
  <2>1. res.x = n /\ res.answer = "aborted"
    BY Zenon, <1>5 DEF Result
  <2>2. Resets(x, n, "aborted") /\ IsError("aborted") /\ "aborted" \in Errors
    BY <1>3 DEF Resets, Usable, Finished, IsError, OkAnswers, Errors
  <2>3. Served(x, s, r, n, "aborted")
    BY Zenon, <1>1, <1>3, <2>2 DEF Served
  <2> QED BY Zenon, <1>3, <2>1, <2>2, <2>3 DEF DmlPre, Pre
<1>6. ASSUME NEW a \in BatchAnswers, a # "batch", NEW y \in Transaction, SameHistory(x, y),
             y.backend # "committed", y.current = s, y.mode = "request", y.ran = x.ran,
             HasEntry(y, s, r, "ok", a), OtherDml(x, y, s),
             Keeps(x, y) \/ Resets(x, y, a),
             NEW c \in BOOLEAN, res \in RolledBackIf(c, Result(y, a))
      PROVE  DmlPre(x, s, r, res.x, res.answer)
  <2>1. /\ res.answer = a /\ res.x \in Transaction /\ SameHistory(x, res.x)
        /\ SameDml(y, res.x)
        /\ Keeps(x, res.x) \/ Resets(x, res.x, a)
    <3>1. RollsBack(x, y, a, res)
      BY <1>6, RolledBackFields
    <3> QED BY Zenon, <3>1 DEF RollsBack
  <2>2. /\ res.x.current = s /\ res.x.mode = "request" /\ res.x.ran = x.ran
        /\ HasEntry(res.x, s, r, "ok", a) /\ OtherDml(x, res.x, s)
    BY <1>6, <2>1 DEF SameDml, HasEntry, OtherDml
  <2> QED BY Zenon, <1>1, <1>6, <2>1, <2>2, BatchServed
<1>7. ASSUME NEW a \in BatchAnswers, a # "batch", res \in RolledBackIf(b, Result(SetOutcome(z, a), a))
      PROVE  DmlPre(x, s, r, res.x, res.answer)
  <2> DEFINE y == SetOutcome(z, a)
  <2>1. BatchRecorded(x, z, s, r, a, y)
    BY Zenon, <1>1, BatchOutcome
  <2> HIDE DEF y
  <2>2. Keeps(x, y) /\ y.backend # "committed" /\ y.ran = x.ran
    BY Zenon, <1>1, <2>1 DEF BatchRecorded, SameBackend, Keeps, Usable
  <2>3. res \in RolledBackIf(b, Result(y, a))
    BY <1>7 DEF y
  <2> QED BY Zenon, <1>6, <1>7, <2>1, <2>2, <2>3 DEF BatchRecorded
<1>8. ASSUME NEW a \in BatchAnswers, a # "batch", NEW y \in MaybeInvalidate(SetOutcome(n, a)),
             NEW c \in BOOLEAN, res \in RolledBackIf(c, Result(y, a))
      PROVE  DmlPre(x, s, r, res.x, res.answer)
  <2> DEFINE m == SetOutcome(n, a)
             f == [m EXCEPT !.status = "failed"]
  <2>1. BatchRecorded(x, n, s, r, a, m)
    BY Zenon, <1>3, BatchOutcome
  <2> HIDE DEF m
  <2>2. /\ f \in Transaction /\ SameHistory(m, f) /\ SameDml(m, f)
        /\ f.backend = m.backend /\ f.status = "failed" /\ f.written = m.written
    BY Zenon, <2>1, StatusFields DEF BatchRecorded, Errors
  <2>3. y \in Invalidate(f)
    BY <1>8 DEF MaybeInvalidate, m, f
  <2>4. /\ y \in Transaction /\ SameHistory(f, y) /\ SameDml(f, y)
        /\ y.status = "failed" /\ y.written = f.written
        /\ y.backend \in {"uninitialized", "invalid"}
    <3>1. /\ y \in Transaction /\ SameHistory(f, y) /\ SameDml(f, y)
          /\ y.status = f.status /\ y.written = f.written
          /\ y.backend = f.backend \/ y.backend \in {"invalid", "uninitialized"}
      BY Zenon, <2>2, <2>3, InvalidateFields
    <3> QED BY <1>3, <2>1, <2>2, <3>1 DEF BatchRecorded, SameBackend
  <2>5. /\ SameHistory(x, y) /\ y.current = s /\ y.mode = "request" /\ y.ran = x.ran
        /\ y.written = x.written /\ y.dml = m.dml
    BY <1>3, <2>1, <2>2, <2>4 DEF BatchRecorded, SameHistory, SameDml, SameBackend
  <2>6. HasEntry(y, s, r, "ok", a) /\ OtherDml(x, y, s)
    BY <2>1, <2>5 DEF BatchRecorded, HasEntry, OtherDml
  <2>7. Resets(x, y, a) /\ y.backend # "committed"
    BY <2>4, <2>5 DEF Resets, Usable, Finished
  <2> QED BY <1>6, <1>8, <2>4, <2>5, <2>6, <2>7
<1> DEFINE a == "partial"
<1>9. a \in BatchAnswers /\ a # "batch" /\ "batch" \in BatchAnswers
  BY DEF BatchAnswers
<1>10. \/ res = Result(SetOutcome(w, "batch"), "batch")
       \/ res = Result(n, "aborted")
       \/ res = Result(SetOutcome(w, a), a)
       \/ res \in RolledBackIf(b, Result(SetOutcome(z, a), a))
       \/ \E y \in MaybeInvalidate(SetOutcome(n, a)), c \in BOOLEAN :
            res \in RolledBackIf(c, Result(y, a))
  <2> DEFINE failed(y) == Result(SetOutcome(y, a), a)
  <2>1. \/ res = Result(SetOutcome(w, "batch"), "batch")
        \/ res = Result(n, "aborted")
        \/ res \in BatchFails(z, s, b)
    BY DEF w, n
  <2>2. failed(n).x = SetOutcome(n, a)
    BY DEF Result
  <2>3. BatchFails(z, s, b) =
          {failed(w)} \cup RolledBackIf(b, failed(z))
            \cup UNION {RolledBackIf(c /\ y.backend # "invalid", Result(y, a))
                          : y \in MaybeInvalidate(failed(n).x), c \in {b, FALSE}}
    BY DEF BatchFails, w, n
  <2> DEFINE M == MaybeInvalidate(SetOutcome(n, a))
             U == UNION {RolledBackIf(c /\ y.backend # "invalid", Result(y, a))
                           : y \in M, c \in {b, FALSE}}
  <2>4. BatchFails(z, s, b) = {failed(w)} \cup RolledBackIf(b, failed(z)) \cup U
    BY <2>2, <2>3
  <2> HIDE DEF a, M, failed
  <2>5. ASSUME res \in U
        PROVE  \E y \in M, c \in BOOLEAN : res \in RolledBackIf(c, Result(y, a))
    <3>1. PICK y \in M, c \in {b, FALSE} :
            res \in RolledBackIf(c /\ y.backend # "invalid", Result(y, a))
      BY <2>5
    <3> DEFINE d == c /\ y.backend # "invalid"
    <3>2. d \in BOOLEAN /\ res \in RolledBackIf(d, Result(y, a))
      BY <3>1
    <3> QED BY Zenon, <3>2
  <2> HIDE DEF U
  <2> QED BY <2>1, <2>4, <2>5 DEF failed, M
<1> HIDE DEF a
<1> QED BY <1>4, <1>5, <1>7, <1>8, <1>9, <1>10

\* A batch that is refused or answered again.
LEMMA ReplayBatch ==
  ASSUME NEW x, TxnInv(x), NEW s \in Seqno, NEW r \in Batches, NEW z, NEW state,
         Looked(x, s, r, z, state), state # None
  PROVE  DmlPre(x, s, r, z, BatchReplay(z, state))
<1> DEFINE a == BatchReplay(z, state)
<1>0. x \in Transaction /\ r \notin Statements
  BY RequestsAssumption DEF TxnInv
<1>1. /\ z \in Transaction /\ SameHistory(x, z) /\ SameBackend(x, z) /\ z.ran = x.ran
      /\ z.dml = x.dml /\ z.mode # "request"
      /\ \/ z.mode = "error" /\ state.status \in {"mismatch", "out of order"}
         \/ z.mode = "replay" /\ state = x.dml[s] /\ state # None
  BY Zenon DEF Looked
<1>2. Keeps(x, z)
  BY Zenon, <1>1 DEF SameBackend, Keeps
<1>3. a \in {"mismatch", "out of order", "batch", "partial"} /\ (a = "batch" => s \in x.acked)
  <2>1. CASE z.mode = "error" /\ state.status \in {"mismatch", "out of order"}
    BY Zenon, <2>1 DEF BatchReplay
  <2>2. CASE z.mode = "replay" /\ state = x.dml[s] /\ state # None
    <3>1. state \in DmlEntry /\ (state.outcome \in {"result", "batch"} => s \in x.acked)
      BY Zenon, <1>0, <2>2 DEF TxnInv, ReplayInv, EntryInv, Transaction
    <3>2. state.outcome \in {"empty", "result", "batch", "partial"}
      BY <3>1 DEF DmlEntry
    <3>3. CASE state.outcome \in {"result", "empty"}
      <4>1. a = "mismatch"
        BY <2>2, <3>3 DEF BatchReplay
      <4> QED BY <4>1
    <3>4. CASE state.outcome \notin {"result", "empty"}
      <4>1. a = state.outcome
        BY <2>2, <3>4 DEF BatchReplay
      <4> QED BY Zenon, <3>1, <3>2, <3>4, <4>1
    <3> QED BY Zenon, <3>3, <3>4
  <2> QED BY Zenon, <1>1, <2>1, <2>2
<1> HIDE DEF a
<1>4. a \in OkAnswers \cup Errors /\ a # "aborted" /\ a # "result"
  BY Zenon, <1>3 DEF OkAnswers, Errors
<1>5. DmlPre(x, s, r, z, a)
  BY Zenon, <1>0, <1>1, <1>2, <1>3, <1>4 DEF DmlPre, Pre, Replayed
<1> QED BY <1>5 DEF a

\* ExecuteBatchDml.
LEMMA BatchPre ==
  ASSUME NEW x, TxnInv(x), NEW s \in Seqno, NEW r \in Batches, NEW b \in BOOLEAN,
         NEW res \in ExecuteBatchDml(x, s, r, b)
  PROVE  DmlPre(x, s, r, res.x, res.answer)
<1> DEFINE z     == Lookup(x, s, r).x
           state == Lookup(x, s, r).state
<1>0. x \in Transaction /\ r \in Requests
  BY DEF TxnInv, Requests
<1>1. Looked(x, s, r, z, state)
  BY <1>0, LookupFields
<1>2. CASE state # None
  <2>1. res = Result(z, BatchReplay(z, state))
    BY <1>2 DEF ExecuteBatchDml
  <2>2. res.x = z /\ res.answer = BatchReplay(z, state)
    BY <2>1 DEF Result
  <2> HIDE DEF z, state
  <2> QED BY <1>1, <1>2, <2>2, ReplayBatch
<1>3. CASE state = None /\ Refusal(z) # "ok"
  <2>1. res = Result(z, Refusal(z))
    BY <1>3 DEF ExecuteBatchDml
  <2>2. res.x = z /\ res.answer = Refusal(z)
    BY <2>1 DEF Result
  <2> HIDE DEF z, state
  <2> QED BY <1>0, <1>1, <1>3, <2>2, RefusedPre
<1>4. CASE state = None /\ Refusal(z) = "ok"
  <2>1. res \in {Result(SetOutcome(BackendActive(Runs(z, s), {s}), "batch"), "batch"),
                 Result(BackendReset(z), "aborted")} \cup BatchFails(z, s, b)
    BY <1>4 DEF ExecuteBatchDml
  <2> HIDE DEF z, state
  <2>2. z.status = "ok" /\ Usable(z)
    BY Zenon, <1>1, <1>4, RefusalFields DEF Looked
  <2>3. x.status = "ok" /\ Usable(x) /\ x.dml[s] = None
    BY Zenon, <1>1, <1>4, <2>2 DEF Looked, SameBackend, Usable
  <2> QED BY <1>0, <1>1, <1>4, <2>1, <2>3, BatchPreRuns
<1> QED BY <1>2, <1>3, <1>4

--------------------------------------------------------------------------------
(* What a request leaves *)

Moves(x, y) == Keeps(x, y) \/ Stops(x, y) \/ Commits(x, y)

\* Whatever a request makes of the backend transaction, the invariant of the
\* backend holds of it, a finished transaction has written what it had written,
\* and one that an abort has ended has not come back.
LEMMA MovesBackend ==
  ASSUME NEW x, TxnInv(x), NEW w \in Transaction, w.closed = x.closed, Moves(x, w),
         \/ w.acked = x.acked
         \/ /\ \E s \in w.buffered : w.acked = x.acked \cup {s}
            /\ Commits(x, w) \/ (Keeps(x, w) /\ Usable(w))
  PROVE  /\ BackendInv(w)
         /\ Finished(x) => w.written = x.written
         /\ x.backend # "committed" /\ ~(x.status = "ok" /\ Usable(x)) =>
              w.backend # "committed" /\ ~(w.status = "ok" /\ Usable(w))
<1>1. /\ x.written # None => x.backend = "committed"
      /\ x.status = "aborted" => x.backend # "committed"
      /\ ~SchemaChanges =>
           /\ x.backend = "committed" => x.acked \subseteq x.written
           /\ x.status = "ok" /\ Usable(x) => x.acked \subseteq x.buffered
           /\ x.closed => Finished(x)
  BY Zenon DEF TxnInv, BackendInv
<1>2. CASE Keeps(x, w)
  <2>1. w.acked = x.acked \/ (Usable(w) /\ \E s \in w.buffered : w.acked = x.acked \cup {s})
    BY <1>2 DEF Keeps, Commits, Usable
  <2> QED BY Zenon, <1>1, <1>2, <2>1 DEF Keeps, BackendInv, Usable, Finished
<1>3. CASE Stops(x, w)
  <2>1. w.acked = x.acked \/ Keeps(x, w) \/ Commits(x, w)
    OBVIOUS
  <2>2. CASE w.acked = x.acked
    BY <1>1, <1>3, <2>2 DEF Stops, BackendInv, Usable, Finished
  <2>3. CASE Commits(x, w)
    BY <1>3, <2>3 DEF Stops, Commits, Usable, Finished
  <2> QED BY Zenon, <1>2, <2>1, <2>2, <2>3
<1>4. CASE Commits(x, w)
  <2>1. \A u \in w.acked : u \in x.acked \/ u \in w.buffered
    OBVIOUS
  <2> QED BY <1>1, <1>4, <2>1 DEF Commits, BackendInv, Usable, Finished
<1> QED BY Zenon, <1>2, <1>3, <1>4 DEF Moves

\* A request that changes no entry keeps the invariant of the transaction.
LEMMA MovesInv ==
  ASSUME NEW x, TxnInv(x), NEW w \in Transaction, w.closed = x.closed, Moves(x, w),
         w.dml = x.dml, w.ran = x.ran, w.acked = x.acked, w.first = x.first
  PROVE  TxnInv(w) /\ (Finished(x) => w.written = x.written)
<1>1. /\ BackendInv(w)
      /\ Finished(x) => w.written = x.written
      /\ x.backend # "committed" /\ ~(x.status = "ok" /\ Usable(x)) =>
           w.backend # "committed" /\ ~(w.status = "ok" /\ Usable(w))
  BY MovesBackend
<1>2. RanInv(w)
  BY DEF TxnInv, RanInv
<1>3. ReplayInv(w)
  BY Zenon, <1>1 DEF TxnInv, ReplayInv, EntryInv
<1> QED BY <1>1, <1>2, <1>3 DEF TxnInv

\* The record of the transaction with what its clients have been told added.
Answered(x, op, s, res) ==
  LET isNew   == s # None /\ x.dml[s] = None /\ res.x.dml[s] # None
      success == op = "dml" /\ res.answer \in {"result", "batch"}
  IN  [res.x EXCEPT !.first = IF isNew THEN [@ EXCEPT ![s] = res.answer] ELSE @,
                    !.acked = IF success THEN @ \cup {s} ELSE @]

\* w is y with the answer a to op on the request s added to the history.
Tells(x, op, s, y, a, w) ==
  /\ w \in Transaction /\ SameDml(y, w) /\ SameBackend(y, w)
  /\ w.closed = y.closed /\ w.type = y.type
  /\ w.acked = IF op = "dml" /\ a \in {"result", "batch"} THEN y.acked \cup {s} ELSE y.acked
  /\ w.first = IF s # None /\ x.dml[s] = None /\ y.dml[s] # None
                 THEN [y.first EXCEPT ![s] = a] ELSE y.first

\* Only the history of the answers changes with the answer.
LEMMA AnsweredFields ==
  ASSUME NEW x, NEW op, NEW s, s \in Seqno \/ (s = None /\ op # "dml"),
         NEW res, res.x \in Transaction, res.answer \in OkAnswers \cup Errors
  PROVE  Tells(x, op, s, res.x, res.answer, Answered(x, op, s, res))
<1> DEFINE y == res.x
           f == IF s # None /\ x.dml[s] = None /\ y.dml[s] # None
                  THEN [y.first EXCEPT ![s] = res.answer] ELSE y.first
           k == IF op = "dml" /\ res.answer \in {"result", "batch"}
                  THEN y.acked \cup {s} ELSE y.acked
           w == [y EXCEPT !.first = f, !.acked = k]
<1>1. y.first \in [Seqno -> OkAnswers \cup Errors \cup {None}] /\ y.acked \in SUBSET Seqno
  BY DEF Transaction
<1>2. f \in [Seqno -> OkAnswers \cup Errors \cup {None}] /\ k \in SUBSET Seqno
  BY <1>1
<1>3. Answered(x, op, s, res) = w
  BY DEF Answered
<1> HIDE DEF f, k, y
<1>4. y \in Transaction
  BY DEF y
<1>5. w \in Transaction
  BY Zenon, <1>2, <1>4 DEF Transaction
<1>6. /\ SameDml(y, w) /\ SameBackend(y, w) /\ w.closed = y.closed /\ w.type = y.type
      /\ w.acked = k /\ w.first = f
  BY <1>4 DEF Transaction, SameDml, SameBackend
<1> HIDE DEF w
<1> QED BY <1>3, <1>5, <1>6 DEF Tells, f, k, y

\* What serving a request with answer a makes of the transaction x.
Serves(x, w, a) ==
  /\ TxnInv(w) /\ w.closed = x.closed
  /\ Finished(x) => w.written = x.written
  /\ a = "aborted" => w.written = None

\* The first answer to r is given again.
Agrees(w, s, r, a) ==
  Boosted = {} /\ r \in Statements /\ w.dml[s] # None /\ w.dml[s].request = r => w.first[s] = a

\* The entry of the request that is answered, once GuardedCall has recorded it.
LEMMA ServedEntry ==
  ASSUME NEW x \in Transaction, NEW s \in Seqno, NEW r \in Requests, NEW w \in Transaction,
         NEW a \in Errors \cup (IF r \in Statements THEN {"result"} ELSE {"batch", "partial"}),
         HasEntry(w, s, r, IF IsError(a) THEN a ELSE "ok", IF IsError(a) THEN "empty" ELSE a),
         a \in {"result", "batch"} => s \in w.acked,
         a = "aborted" => w.status # "ok" /\ w.backend # "committed", w.first[s] = a
  PROVE  w.dml[s] # None /\ EntryInv(w, s)
<1> DEFINE e == w.dml[s]
<1>1. /\ e # None /\ e.request = r
      /\ e.status = IF IsError(a) THEN a ELSE "ok"
      /\ e.outcome = IF IsError(a) THEN "empty" ELSE a
  BY DEF HasEntry
<1> HIDE DEF e
<1>2. CASE IsError(a)
  <2>1. a \in Errors /\ a # "ok"
    BY Zenon, <1>2 DEF IsError, OkAnswers, Errors
  <2>2. e.status = a /\ e.outcome = "empty"
    BY <1>1, <1>2
  <2>3. SqlReplay(e) = a
    BY <2>1, <2>2 DEF SqlReplay
  <2> QED BY <1>1, <2>1, <2>2, <2>3 DEF EntryInv, e
<1>3. CASE ~IsError(a)
  <2>1. a \in IF r \in Statements THEN {"result"} ELSE {"batch", "partial"}
    BY Zenon, <1>3 DEF IsError, OkAnswers, Errors
  <2>2. e.status = "ok" /\ e.outcome = a
    BY <1>1, <1>3
  <2>3. r \in Statements => a = "result" /\ SqlReplay(e) = a
    BY <2>1, <2>2 DEF SqlReplay
  <2>4. a # "empty"
    BY <2>1
  <2> QED BY <1>1, <2>2, <2>3, <2>4 DEF EntryInv, e
<1> QED BY <1>2, <1>3

\* What the caller of a DML request is told, and what it leaves.
DmlServed(x, s, r, res) ==
  LET w == Answered(x, "dml", s, res) IN
    Serves(x, w, res.answer) /\ Agrees(w, s, r, res.answer)

\* A DML request, registered or not, leaves the invariant.
LEMMA DmlCall ==
  ASSUME NEW x, TxnInv(x), NEW s \in Seqno, NEW r \in Requests, NEW z, NEW a,
         DmlPre(x, s, r, z, a), NEW res \in AfterCall("dml", Result(z, a))
  PROVE  DmlServed(x, s, r, res)
<1> DEFINE y == res.x
           w == Answered(x, "dml", s, res)
<1>0. x \in Transaction
  BY DEF TxnInv
<1>1. /\ res.answer = a /\ a \in OkAnswers \cup Errors
      /\ y \in Transaction /\ SameHistory(x, y) /\ y.ran = z.ran
      /\ Keeps(x, y) \/ Stops(x, y) \/ Commits(x, y)
      /\ a = "aborted" => y.status # "ok" /\ y.backend # "committed"
      /\ ~Poisons("dml", a) => SameBackend(z, y)
      /\ IF IsError(a) /\ z.mode = "request" /\ z.current # None /\ z.dml[z.current] # None
           THEN /\ HasEntry(y, z.current, z.dml[z.current].request, a, z.dml[z.current].outcome)
                /\ OtherDml(z, y, z.current)
           ELSE y.dml = z.dml
  <2>1. Pre("dml", x, z, a)
    BY Zenon DEF DmlPre
  <2>2. a \in OkAnswers \cup Errors /\ Called("dml", x, z, a, res)
    BY <1>0, <2>1, CallFields
  <2> QED BY Zenon, <2>2 DEF Called
<1>2. /\ w \in Transaction /\ SameDml(y, w) /\ SameBackend(y, w) /\ w.closed = x.closed
      /\ w.acked = IF a \in {"result", "batch"} THEN x.acked \cup {s} ELSE x.acked
      /\ w.first = IF x.dml[s] = None /\ y.dml[s] # None
                     THEN [x.first EXCEPT ![s] = a] ELSE x.first
  <2>1. Tells(x, "dml", s, y, a, w)
    BY Zenon, <1>1, AnsweredFields
  <2>2. s # None
    BY RequestsAssumption
  <2> HIDE DEF y, w
  <2> QED BY Zenon, <1>1, <2>1, <2>2 DEF Tells, SameHistory
<1> HIDE DEF y, w
<1>3. Moves(x, w) /\ (a = "aborted" => w.status # "ok" /\ w.backend # "committed")
  BY Zenon, <1>1, <1>2 DEF Moves, SameBackend, Keeps, Stops, Commits, Usable, Finished
<1>4. CASE Replayed(x, s, r, z, a)
  <2>1. /\ w.dml = x.dml /\ w.ran = x.ran /\ w.first = x.first /\ w.acked = x.acked
    BY Zenon, <1>1, <1>2, <1>4 DEF Replayed, SameDml
  <2>2. TxnInv(w) /\ (Finished(x) => w.written = x.written)
    BY Zenon, <1>2, <1>3, <2>1, MovesInv
  <2>3. Agrees(w, s, r, a)
    BY Zenon, <1>4, <2>1 DEF Agrees, Replayed, TxnInv, ReplayInv, EntryInv
  <2>4. Serves(x, w, a)
    BY Zenon, <1>2, <1>3, <2>2 DEF Serves, TxnInv, BackendInv
  <2> QED BY Zenon, <1>1, <2>3, <2>4 DEF DmlServed, w
<1>5. CASE Boosted # {} /\ z = x /\ a = "data boost"
  <2>1. IsError(a) /\ a # "ok" /\ a # "aborted" /\ a \notin {"result", "batch"}
    BY Zenon, <1>5 DEF IsError, OkAnswers
  <2>2. \A u \in Seqno :
          \/ w.dml[u] = x.dml[u]
          \/ /\ x.dml[u] # None /\ w.dml[u] # None /\ w.dml[u].status = a
             /\ w.dml[u].outcome = x.dml[u].outcome
    <3>1. CASE x.mode = "request" /\ x.current # None /\ x.dml[x.current] # None
      BY Zenon, <1>1, <1>2, <1>5, <2>1, <3>1 DEF SameDml, HasEntry, OtherDml
    <3>2. CASE ~(x.mode = "request" /\ x.current # None /\ x.dml[x.current] # None)
      BY Zenon, <1>1, <1>2, <1>5, <2>1, <3>2 DEF SameDml
    <3> QED BY Zenon, <3>1, <3>2
  <2>3. w.ran = x.ran /\ w.acked = x.acked
    BY Zenon, <1>1, <1>2, <1>5, <2>1 DEF SameDml
  <2>4. /\ BackendInv(w)
        /\ Finished(x) => w.written = x.written
        /\ x.backend # "committed" /\ ~(x.status = "ok" /\ Usable(x)) =>
             w.backend # "committed" /\ ~(w.status = "ok" /\ Usable(w))
    BY Zenon, <1>2, <1>3, <2>3, MovesBackend
  <2>5. RanInv(w)
    <3>1. x.ran \in Seq(Seqno)
      BY <1>0 DEF Transaction
    <3> QED BY <2>2, <2>3, <3>1 DEF TxnInv, RanInv
  <2>6. ReplayInv(w)
    <3> SUFFICES ASSUME NEW u \in Seqno, w.dml[u] # None
                 PROVE  /\ w.dml[u].status = "ok" => w.dml[u].outcome # "empty"
                        /\ w.dml[u].outcome \in {"result", "batch"} => u \in w.acked
                        /\ w.dml[u].status = "aborted" => /\ w.backend # "committed"
                                                          /\ ~(w.status = "ok" /\ Usable(w))
      BY Zenon, <1>5 DEF ReplayInv, EntryInv
    <3>1. /\ x.dml[u] # None
          /\ x.dml[u].status = "ok" => x.dml[u].outcome # "empty"
          /\ x.dml[u].outcome \in {"result", "batch"} => u \in x.acked
          /\ x.dml[u].status = "aborted" => /\ x.backend # "committed"
                                            /\ ~(x.status = "ok" /\ Usable(x))
      BY Zenon, <2>2 DEF TxnInv, ReplayInv, EntryInv
    <3> QED BY Zenon, <2>1, <2>2, <2>3, <2>4, <3>1
  <2>7. Serves(x, w, a) /\ Agrees(w, s, r, a)
    BY Zenon, <1>2, <1>5, <2>1, <2>4, <2>5, <2>6 DEF Serves, Agrees, TxnInv
  <2> QED BY Zenon, <1>1, <2>7 DEF DmlServed, w
<1>6. CASE Served(x, s, r, z, a)
  <2>1. /\ HasEntry(w, s, r, IF IsError(a) THEN a ELSE "ok", IF IsError(a) THEN "empty" ELSE a)
        /\ OtherDml(x, w, s)
    <3>0. s # None /\ z.current = s /\ z.mode = "request" /\ OtherDml(x, z, s)
      BY Zenon, <1>6, RequestsAssumption DEF Served
    <3>1. CASE IsError(a)
      <4>1. HasEntry(z, s, r, "ok", "empty")
        BY Zenon, <1>6, <3>1 DEF Served
      <4>2. HasEntry(y, s, r, a, "empty") /\ OtherDml(z, y, s)
        BY Zenon, <1>1, <3>0, <3>1, <4>1 DEF HasEntry
      <4>3. HasEntry(w, s, r, a, "empty") /\ OtherDml(x, w, s)
        BY Zenon, <1>2, <3>0, <4>2 DEF HasEntry, OtherDml, SameDml
      <4> QED BY <3>1, <4>3
    <3>2. CASE ~IsError(a)
      <4>1. HasEntry(z, s, r, "ok", a)
        BY Zenon, <1>6, <3>2 DEF Served
      <4>2. w.dml = z.dml
        BY Zenon, <1>1, <1>2, <3>2 DEF SameDml
      <4>3. HasEntry(w, s, r, "ok", a) /\ OtherDml(x, w, s)
        BY Zenon, <3>0, <4>1, <4>2 DEF HasEntry, OtherDml
      <4> QED BY <3>2, <4>3
    <3> QED BY <3>1, <3>2
  <2>2. /\ x.dml[s] = None /\ w.dml[s] # None /\ \A u \in Registered(x) : u < s
        /\ a \in Errors \cup (IF r \in Statements THEN {"result"} ELSE {"batch", "partial"})
        /\ w.ran = x.ran \/ w.ran = Append(x.ran, s)
    BY Zenon, <1>1, <1>2, <1>6, <2>1 DEF Served, HasEntry, SameDml
  <2>3. /\ w.first[s] = a /\ \A u \in Seqno : u # s => w.first[u] = x.first[u]
    <3>1. x.first \in [Seqno -> OkAnswers \cup Errors \cup {None}]
      BY <1>0 DEF Transaction
    <3>2. w.first = [x.first EXCEPT ![s] = a]
      BY Zenon, <1>2, <2>2 DEF SameDml
    <3> QED BY Zenon, <3>1, <3>2
  <2>4. a \in {"result", "batch"} =>
          /\ s \in w.acked /\ s \in w.buffered /\ w.acked = x.acked \cup {s}
          /\ Commits(x, w) \/ (Keeps(x, w) /\ Usable(w))
    <3> SUFFICES ASSUME a \in {"result", "batch"}
                 PROVE  /\ s \in w.acked /\ s \in w.buffered /\ w.acked = x.acked \cup {s}
                        /\ Commits(x, w) \/ (Keeps(x, w) /\ Usable(w))
      OBVIOUS
    <3>1. ~Poisons("dml", a)
      BY DEF Poisons, IsError, OkAnswers
    <3>2. s \in z.buffered /\ (Commits(x, z) \/ (Keeps(x, z) /\ Usable(z)))
      BY <1>6 DEF Served
    <3>3. SameBackend(z, y) /\ SameBackend(y, w)
      BY Zenon, <1>1, <1>2, <3>1
    <3> QED BY Zenon, <1>2, <3>2, <3>3 DEF SameBackend, Commits, Keeps, Usable
  <2>5. /\ BackendInv(w)
        /\ Finished(x) => w.written = x.written
        /\ x.backend # "committed" /\ ~(x.status = "ok" /\ Usable(x)) =>
             w.backend # "committed" /\ ~(w.status = "ok" /\ Usable(w))
    BY Zenon, <1>2, <1>3, <2>4, MovesBackend
  <2>6. RanInv(w)
    <3>1. x.ran \in Seq(Seqno) /\ RanInv(x)
      BY Zenon, <1>0 DEF Transaction, TxnInv
    <3>2. \A i \in 1..Len(x.ran) : x.ran[i] \in Seqno /\ x.ran[i] < s /\ x.dml[x.ran[i]] # None
      <4>0. \A i \in 1..Len(x.ran) : x.ran[i] \in Seqno
        <5> DEFINE ran == x.ran
        <5>1. ran \in Seq(Seqno)
          BY <3>1
        <5> HIDE DEF ran
        <5>2. \A i \in 1..Len(ran) : ran[i] \in Seqno
          BY <5>1
        <5> QED BY Zenon, <5>2 DEF ran
      <4>1. \A i \in 1..Len(x.ran) : x.ran[i] \in Seqno /\ x.dml[x.ran[i]] # None
        BY Zenon, <3>1, <4>0 DEF RanInv
      <4>2. \A u \in Seqno : x.dml[u] # None => u < s
        BY <2>2 DEF Registered
      <4> QED BY Zenon, <4>1, <4>2
    <3>3. \A i \in 1..Len(x.ran) : w.dml[x.ran[i]] # None
      BY <2>1, <2>2, <3>2 DEF OtherDml
    <3>4. CASE w.ran = x.ran
      BY Zenon, <3>1, <3>3, <3>4 DEF RanInv
    <3>5. CASE w.ran = Append(x.ran, s)
      <4>1. /\ Len(w.ran) = Len(x.ran) + 1 /\ Len(x.ran) \in Nat
            /\ w.ran[Len(x.ran) + 1] = s
            /\ \A i \in 1..Len(x.ran) : w.ran[i] = x.ran[i]
        BY <3>1, <3>5
      <4>2. w.dml[s] # None
        BY <2>2
      <4>3. ASSUME NEW i \in 1..Len(w.ran), NEW j \in 1..Len(w.ran), i < j
            PROVE  w.ran[i] < w.ran[j]
        <5>1. i \in 1..Len(x.ran) /\ (j \in 1..Len(x.ran) \/ j = Len(x.ran) + 1)
          BY <4>1, <4>3
        <5> QED BY <3>1, <3>2, <4>1, <4>3, <5>1 DEF RanInv
      <4>4. ASSUME NEW i \in 1..Len(w.ran) PROVE w.dml[w.ran[i]] # None
        <5>1. i \in 1..Len(x.ran) \/ i = Len(x.ran) + 1
          BY <4>1
        <5> QED BY <3>3, <4>1, <4>2, <5>1
      <4> QED BY <4>3, <4>4 DEF RanInv
    <3> QED BY <2>2, <3>4, <3>5
  <2>7. ReplayInv(w)
    <3> SUFFICES ASSUME NEW u \in Seqno, w.dml[u] # None PROVE EntryInv(w, u)
      BY DEF ReplayInv
    <3>0. EntryInv(w, s)
      BY Zenon, <1>0, <1>2, <1>3, <2>1, <2>2, <2>3, <2>4, ServedEntry
    <3>1. CASE u = s
      BY <3>0, <3>1
    <3>2. CASE u # s
      <4>1. w.dml[u] = x.dml[u] /\ w.first[u] = x.first[u] /\ x.acked \subseteq w.acked
        BY Zenon, <1>2, <2>1, <2>3, <3>2 DEF OtherDml
      <4> QED BY Zenon, <2>5, <4>1 DEF TxnInv, ReplayInv, EntryInv
    <3> QED BY <3>1, <3>2
  <2>8. Serves(x, w, a)
    BY Zenon, <1>2, <1>3, <2>5, <2>6, <2>7 DEF Serves, TxnInv, BackendInv
  <2>9. Agrees(w, s, r, a)
    BY Zenon, <2>3 DEF Agrees
  <2> QED BY Zenon, <1>1, <2>8, <2>9 DEF DmlServed, w
<1> QED BY Zenon, <1>4, <1>5, <1>6 DEF DmlPre

\* A read or a commit, before GuardedCall has seen the answer.
PlainPre(op, x, z, a) == Pre(op, x, z, a) /\ z.dml = x.dml /\ z.ran = x.ran

\* A request that is not about DML leaves the invariant.
LEMMA PlainStep ==
  ASSUME NEW x, TxnInv(x), NEW op \in {"read", "commit", "rollback"},
         NEW res, res.x \in Transaction, res.answer \in OkAnswers \cup Errors,
         SameHistory(x, res.x), res.x.dml = x.dml, res.x.ran = x.ran, Moves(x, res.x),
         res.answer = "aborted" => res.x.backend # "committed"
  PROVE  Serves(x, Answered(x, op, None, res), res.answer)
<1> DEFINE w == Answered(x, op, None, res)
<1>1. Tells(x, op, None, res.x, res.answer, w)
  BY AnsweredFields
<1> HIDE DEF w
<1>2. /\ w \in Transaction /\ SameDml(res.x, w) /\ SameBackend(res.x, w)
      /\ w.closed = x.closed /\ w.acked = x.acked /\ w.first = x.first
  BY <1>1 DEF Tells, SameHistory
<1>3. Moves(x, w) /\ w.dml = x.dml /\ w.ran = x.ran
  BY Zenon, <1>2 DEF Moves, SameBackend, SameDml, Keeps, Stops, Commits, Usable, Finished
<1>4. TxnInv(w) /\ (Finished(x) => w.written = x.written)
  BY <1>2, <1>3, MovesInv
<1>5. Serves(x, w, res.answer)
  BY Zenon, <1>2, <1>4 DEF Serves, TxnInv, BackendInv, SameBackend
<1> QED BY <1>5 DEF w

\* A read or a commit, after GuardedCall has seen the answer.
LEMMA PlainCall ==
  ASSUME NEW x, TxnInv(x), NEW op \in {"read", "commit"}, NEW z, NEW a,
         PlainPre(op, x, z, a), NEW res \in AfterCall(op, Result(z, a))
  PROVE  Serves(x, Answered(x, op, None, res), res.answer)
<1> DEFINE y == res.x
<1>0. x \in Transaction
  BY DEF TxnInv
<1>1. /\ res.answer = a /\ a \in OkAnswers \cup Errors
      /\ y \in Transaction /\ SameHistory(x, y) /\ y.ran = z.ran
      /\ Keeps(x, y) \/ Stops(x, y) \/ Commits(x, y)
      /\ a = "aborted" => y.status # "ok" /\ y.backend # "committed"
      /\ y.dml = z.dml
  <2>1. Pre(op, x, z, a) /\ op # "dml"
    BY DEF PlainPre
  <2>2. a \in OkAnswers \cup Errors /\ Called(op, x, z, a, res)
    BY <1>0, <2>1, CallFields
  <2> QED BY Zenon, <2>1, <2>2 DEF Called
<1> HIDE DEF y
<1>2. /\ y.dml = x.dml /\ y.ran = x.ran /\ Moves(x, y)
  BY <1>1 DEF PlainPre, Moves
<1> QED BY Zenon, <1>1, <1>2, PlainStep DEF y

\* What the results of a handler of reads and commits leave, and the answer from
\* a transaction that has met an error.
LEMMA PlainServes ==
  ASSUME NEW x, TxnInv(x), NEW op \in {"read", "commit"}, NEW results,
         x.status = "ok" => \A r \in results : PlainPre(op, x, r.x, r.answer) /\ r = Result(r.x, r.answer),
         NEW res \in GuardedCall(op, x, results)
  PROVE  Serves(x, Answered(x, op, None, res), res.answer)
<1>1. CASE x.status # "ok"
  <2>1. res = Result(x, x.status)
    BY <1>1 DEF GuardedCall
  <2>2. res.x = x /\ res.answer = x.status
    BY <2>1 DEF Result
  <2>3. x \in Transaction /\ x.status \in Errors /\ (x.status = "aborted" => x.backend # "committed")
    BY <1>1 DEF TxnInv, Transaction, BackendInv
  <2>4. SameHistory(x, x) /\ Moves(x, x)
    BY Zenon DEF SameHistory, Moves, Keeps
  <2> QED BY <2>2, <2>3, <2>4, PlainStep
<1>2. CASE x.status = "ok"
  <2>1. PICK r \in results : res \in AfterCall(op, r)
    BY <1>2 DEF GuardedCall
  <2>2. PlainPre(op, x, r.x, r.answer) /\ r = Result(r.x, r.answer)
    BY <1>2
  <2> QED BY <2>1, <2>2, PlainCall
<1> QED BY <1>1, <1>2

\* Read, StreamingRead and queries.
LEMMA ReadPre ==
  ASSUME NEW x, TxnInv(x), x.status = "ok", NEW b \in BOOLEAN, NEW res \in Read(x, b)
  PROVE  PlainPre("read", x, res.x, res.answer) /\ res = Result(res.x, res.answer)
<1>0. x \in Transaction /\ SameHistory(x, x) /\ Keeps(x, x)
  BY DEF TxnInv, SameHistory, Keeps
<1>1. CASE Refusal(x) # "ok"
  <2>1. res = Result(x, Refusal(x))
    BY <1>1 DEF Read
  <2>2. Refusal(x) \in Errors /\ Refusal(x) # "aborted"
    BY <1>0, <1>1, RefusalFields
  <2> QED BY <1>0, <2>1, <2>2 DEF Result, PlainPre, Pre
<1>2. ASSUME Usable(x), NEW z \in Transaction, SameHistory(x, z), SameDml(x, z),
             z.backend # "committed", NEW a \in {"cannot", "failed", "aborted"},
             Keeps(x, z) \/ Resets(x, z, a), res \in RolledBackIf(b, Result(z, a))
      PROVE  PlainPre("read", x, res.x, res.answer) /\ res = Result(res.x, res.answer)
  <2>1. /\ res.answer = a /\ res.x \in Transaction /\ SameHistory(x, res.x) /\ SameDml(z, res.x)
        /\ res.x.backend # "committed"
        /\ Keeps(x, res.x) \/ Resets(x, res.x, a)
    <3>1. RollsBack(x, z, a, res)
      BY Zenon, <1>0, <1>2, RolledBackFields
    <3> QED BY Zenon, <3>1 DEF RollsBack
  <2>2. res = Result(res.x, res.answer)
    BY <1>2 DEF RolledBackIf, Result
  <2> QED BY Zenon, <1>2, <2>1, <2>2 DEF PlainPre, Pre, SameDml, Errors
<1>3. CASE Refusal(x) = "ok"
  <2>0. Usable(x)
    BY <1>0, <1>3, RefusalFields
  <2>1. CASE x.type # "rw"
    <3>1. res \in RolledBackIf(b, Result(x, "cannot"))
      BY <1>3, <2>1 DEF Read
    <3>2. SameDml(x, x) /\ x.backend # "committed"
      BY <2>0 DEF SameDml, Usable
    <3> QED BY <1>0, <1>2, <2>0, <3>1, <3>2
  <2>2. CASE x.type = "rw"
    <3>1. \/ res = Result(BackendActive(x, {}), "result")
          \/ \E r \in StatementFails(x) : r.answer # "constraint" /\ res \in RolledBackIf(b, r)
      BY <1>3, <2>2 DEF Read
    <3>2. CASE res = Result(BackendActive(x, {}), "result")
      <4> DEFINE y == BackendActive(x, {})
      <4>1. /\ y \in Transaction /\ SameHistory(x, y) /\ SameDml(x, y)
            /\ y.backend = "active" /\ y.buffered = x.buffered \cup {}
            /\ y.status = x.status /\ y.written = x.written
        BY Zenon, <1>0, ActiveFields
      <4> HIDE DEF y
      <4>2. res = Result(y, "result") /\ Keeps(x, y)
        BY Zenon, <2>0, <3>2, <4>1 DEF y, Keeps
      <4> QED BY Zenon, <4>1, <4>2 DEF Result, PlainPre, Pre, SameDml, OkAnswers
    <3>3. ASSUME NEW r \in StatementFails(x), r.answer # "constraint", res \in RolledBackIf(b, r)
          PROVE  PlainPre("read", x, res.x, res.answer) /\ res = Result(res.x, res.answer)
      <4>1. /\ r.x \in Transaction /\ SameHistory(x, r.x) /\ SameDml(x, r.x)
            /\ r.x.backend # "committed"
            /\ \/ r.answer = "failed" /\ Keeps(x, r.x)
               \/ r.answer \in {"constraint", "aborted"} /\ Resets(x, r.x, r.answer)
        BY Zenon, <1>0, <2>0, FailsFields
      <4>2. r = Result(r.x, r.answer)
        BY Zenon DEF StatementFails, Result
      <4>3. r.answer \in {"cannot", "failed", "aborted"}
        BY <3>3, <4>1
      <4> QED BY Zenon, <1>2, <2>0, <3>3, <4>1, <4>2, <4>3
    <3> QED BY <3>1, <3>2, <3>3
  <2> QED BY <2>1, <2>2
<1> QED BY <1>1, <1>3

\* Commit, with or without mutations, with or without a precommit token.
LEMMA CommitPre ==
  ASSUME NEW x, TxnInv(x), x.status = "ok", NEW m \in BOOLEAN, NEW token \in BOOLEAN,
         NEW res \in Commit(x, m, token)
  PROVE  PlainPre("commit", x, res.x, res.answer) /\ res = Result(res.x, res.answer)
<1>0. /\ x \in Transaction /\ SameHistory(x, x) /\ Keeps(x, x)
      /\ x.backend \in {"uninitialized", "active", "committed", "rolledback", "invalid"}
  BY Zenon DEF TxnInv, SameHistory, Keeps, Transaction
<1>1. ASSUME NEW a \in {"invalid", "finished", "timestamp", "cannot", "failed"},
             res = Result(x, a)
      PROVE  PlainPre("commit", x, res.x, res.answer) /\ res = Result(res.x, res.answer)
  BY Zenon, <1>0, <1>1 DEF Result, PlainPre, Pre, OkAnswers, Errors
<1>2. CASE ~Usable(x)
  <2>1. \E a \in {"invalid", "finished", "timestamp", "cannot"} : res = Result(x, a)
    <3>1. CASE x.backend = "invalid"
      BY <3>1 DEF Commit, Usable
    <3>2. CASE x.backend = "rolledback"
      BY <3>2 DEF Commit, Usable
    <3>3. CASE x.backend = "committed"
      BY <3>3 DEF Commit, Usable
    <3> QED BY <1>0, <1>2, <3>1, <3>2, <3>3 DEF Usable
  <2> QED BY <1>1, <2>1
<1>3. CASE Usable(x) /\ x.type # "rw"
  <2>1. \E a \in {"cannot", "failed"} : res = Result(x, a)
    BY <1>3 DEF Commit, Usable
  <2> QED BY <1>1, <2>1
<1>4. CASE Usable(x) /\ x.type = "rw"
  <2> DEFINE W == IF m THEN {Mutation} ELSE {}
             y == BackendActive(x, W)
  <2>1. res \in StatementFails(x) \/ res \in CommitWritten(y, token)
    BY <1>4 DEF Commit, Usable
  <2>2. /\ y \in Transaction /\ SameHistory(x, y) /\ SameDml(x, y)
        /\ y.backend = "active" /\ y.buffered = x.buffered \cup W
        /\ y.status = x.status /\ y.written = x.written
    <3>1. W \in SUBSET Writes
      BY DEF Writes
    <3> HIDE DEF W
    <3> QED BY Zenon, <1>0, <3>1, ActiveFields
  <2> HIDE DEF y, W
  <2>3. CASE res \in StatementFails(x)
    <3>1. /\ res.x \in Transaction /\ SameHistory(x, res.x) /\ SameDml(x, res.x)
          /\ res.x.backend # "committed"
          /\ \/ res.answer = "failed" /\ Keeps(x, res.x)
             \/ res.answer \in {"constraint", "aborted"} /\ Resets(x, res.x, res.answer)
      BY Zenon, <1>0, <1>4, <2>3, FailsFields
    <3>2. res = Result(res.x, res.answer)
      BY <2>3 DEF StatementFails, Result
    <3> QED BY Zenon, <3>1, <3>2 DEF PlainPre, Pre, SameDml, Errors
  <2>4. CASE res = Result(y, "token")
    <3>1. Keeps(x, y)
      BY Zenon, <1>4, <2>2 DEF Keeps
    <3> QED BY Zenon, <2>2, <2>4, <3>1 DEF Result, PlainPre, Pre, SameDml, OkAnswers
  <2>5. CASE res = Result(BackendCommitted(y), "timestamp")
    <3> DEFINE c == BackendCommitted(y)
    <3>1. /\ c \in Transaction /\ SameHistory(y, c) /\ SameDml(y, c)
          /\ c.backend = "committed" /\ c.buffered = y.buffered
          /\ c.status = y.status /\ c.written = y.buffered
      BY Zenon, <2>2, CommittedFields
    <3> HIDE DEF c
    <3>2. Commits(x, c) /\ SameHistory(x, c) /\ c.dml = x.dml /\ c.ran = x.ran
      BY <1>4, <2>2, <3>1 DEF Commits, SameHistory, SameDml
    <3>3. ~Poisons("commit", "timestamp") /\ "timestamp" \in OkAnswers
      BY DEF Poisons, IsError, OkAnswers
    <3>4. res = Result(c, "timestamp")
      BY <2>5 DEF c
    <3> QED BY Zenon, <3>1, <3>2, <3>3, <3>4 DEF Result, PlainPre, Pre
  <2>6. ASSUME NEW a \in {"aborted", "constraint"}, res = Result(BackendReset(y), a)
        PROVE  PlainPre("commit", x, res.x, res.answer) /\ res = Result(res.x, res.answer)
    <3> DEFINE n == BackendReset(y)
    <3>1. /\ n \in Transaction /\ SameHistory(y, n) /\ SameDml(y, n)
          /\ n.backend = "uninitialized" /\ n.status = y.status /\ n.written = y.written
      BY Zenon, <2>2, ResetFields
    <3> HIDE DEF n
    <3>2. Resets(x, n, a) /\ SameHistory(x, n) /\ n.dml = x.dml /\ n.ran = x.ran
      BY <1>4, <2>2, <3>1 DEF Resets, SameHistory, SameDml, Usable, Finished
    <3>3. res = Result(n, a) /\ a \in Errors
      BY Zenon, <2>6 DEF n, Errors
    <3> QED BY Zenon, <3>1, <3>2, <3>3 DEF Result, PlainPre, Pre
  <2> QED BY <2>1, <2>3, <2>4, <2>5, <2>6 DEF CommitWritten
<1> QED BY <1>2, <1>3, <1>4

\* A rollback keeps its own answer as the status of the transaction.
LEMMA RollbackServes ==
  ASSUME NEW x, TxnInv(x), NEW res \in GuardedCall("rollback", x, Rollback(x))
  PROVE  Serves(x, Answered(x, "rollback", None, res), res.answer)
<1>0. /\ x \in Transaction /\ x.type \in {"rw", "pdml"}
      /\ x.backend \in {"uninitialized", "active", "committed", "rolledback", "invalid"}
  BY Zenon DEF TxnInv, Transaction
<1>1. PICK r \in Rollback(x) : res \in AfterCall("rollback", r)
  BY DEF GuardedCall
<1> DEFINE z == r.x
           a == r.answer
<1>2. /\ z \in Transaction /\ SameHistory(x, z) /\ SameDml(x, z) /\ z.written = x.written
      /\ \/ a \in {"finished", "cannot"} /\ z.backend = x.backend
         \/ a \in {"ok", "failed"} /\ Finished(x) /\ z.backend = x.backend
         \/ a = "ok" /\ ~Finished(x) /\ z.backend = "rolledback"
         \/ a = "aborted" /\ Usable(x) /\ z.backend = "uninitialized"
  <2>1. CASE x.backend = "committed"
    <3>1. r = Result(x, "finished")
      BY <2>1 DEF Rollback
    <3> QED BY <1>0, <3>1 DEF Result, SameHistory, SameDml
  <2>2. CASE x.backend = "rolledback"
    <3>1. r = Result(x, "ok")
      BY <2>2 DEF Rollback
    <3> QED BY <1>0, <2>2, <3>1 DEF Result, SameHistory, SameDml, Finished
  <2>3. CASE ~Finished(x)
    <3>1. r \in BackendRollback(x) \/ r = Result(x, "cannot")
      BY <2>3 DEF Rollback, RollbackCall, Finished
    <3>2. CASE r = Result(x, "cannot")
      BY <1>0, <3>2 DEF Result, SameHistory, SameDml
    <3>3. CASE r \in BackendRollback(x)
      BY Zenon, <1>0, <2>3, <3>3, RollbackFields
    <3> QED BY Zenon, <3>1, <3>2, <3>3
  <2> QED BY Zenon, <1>0, <2>1, <2>2, <2>3 DEF Finished
<1> HIDE DEF z, a
<1>3. a \in OkAnswers \cup Errors /\ Kept(a) = a /\ a \in {"ok"} \cup Errors
  BY Zenon, <1>2 DEF OkAnswers, Errors, Kept
<1> DEFINE inv == IF Poisons("rollback", a) THEN Invalidate([z EXCEPT !.status = a]) ELSE {z}
<1>4. PICK w \in inv : res = Result([w EXCEPT !.status = a], a)
  <2>1. a = r.answer /\ z = r.x
    BY DEF a, z
  <2> HIDE DEF a, z
  <2> QED BY <1>1, <1>3, <2>1 DEF AfterCall
<1>5. /\ w \in Transaction /\ SameHistory(x, w) /\ SameDml(x, w) /\ w.written = x.written
      /\ w.backend = z.backend \/ (Usable(z) /\ w.backend \in {"invalid", "uninitialized"})
      /\ a # "aborted" => w.backend = z.backend
  <2>1. CASE Poisons("rollback", a)
    <3> DEFINE v == [z EXCEPT !.status = a]
    <3>1. /\ v \in Transaction /\ SameHistory(z, v) /\ SameDml(z, v)
          /\ v.backend = z.backend /\ v.status = a /\ v.written = z.written
      BY <1>2, <1>3, StatusFields
    <3>2. w \in Invalidate(v)
      BY <1>4, <2>1
    <3> HIDE DEF v, inv
    <3>3. /\ w \in Transaction /\ SameHistory(v, w) /\ SameDml(v, w)
          /\ w.status = v.status /\ w.written = v.written
          /\ w.backend = v.backend \/ (Usable(v) /\ w.backend \in {"invalid", "uninitialized"})
      BY <3>1, <3>2, InvalidateFields
    <3>4. a = "aborted"
      BY <1>2, <2>1 DEF Poisons
    <3> QED BY Zenon, <1>2, <3>1, <3>3, <3>4 DEF SameHistory, SameDml, Usable
  <2>2. CASE ~Poisons("rollback", a)
    BY <1>2, <1>4, <2>2
  <2> QED BY <2>1, <2>2
<1> DEFINE y == [w EXCEPT !.status = a]
<1>6. /\ y \in Transaction /\ SameHistory(w, y) /\ SameDml(w, y)
      /\ y.backend = w.backend /\ y.status = a /\ y.written = w.written
  BY <1>3, <1>5, StatusFields
<1> HIDE DEF y, inv
<1>7. res.x = y /\ res.answer = a
  BY <1>4 DEF y, Result
<1>8. SameHistory(x, y) /\ y.dml = x.dml /\ y.ran = x.ran
  BY <1>5, <1>6 DEF SameHistory, SameDml
<1>9. Stops(x, y) /\ (a = "aborted" => y.backend # "committed")
  BY <1>2, <1>5, <1>6 DEF Stops, Usable, Finished
<1> QED BY Zenon, <1>3, <1>6, <1>7, <1>8, <1>9, PlainStep DEF Moves

\* Close rolls a transaction back, whatever that answers, and closes it.
LEMMA CloseFields ==
  ASSUME NEW x, TxnInv(x), NEW y \in Close(x)
  PROVE  TxnInv(y) /\ y.closed /\ y.written = x.written
<1>0. x \in Transaction
  BY DEF TxnInv
<1>1. PICK r \in BackendRollback(x) : y = [r.x EXCEPT !.closed = TRUE]
  BY DEF Close
<1> DEFINE z == r.x
<1>2. /\ z \in Transaction /\ SameHistory(x, z) /\ SameDml(x, z)
      /\ z.status = x.status /\ z.written = x.written
      /\ \/ Finished(x) /\ z.backend = x.backend
         \/ ~Finished(x) /\ z.backend = "rolledback"
         \/ SchemaChanges /\ Usable(x) /\ z.backend = "uninitialized"
  BY Zenon, <1>0, RollbackFields
<1> HIDE DEF z
<1>3. /\ y \in Transaction /\ y.closed = TRUE /\ SameDml(z, y) /\ y.first = z.first
      /\ y.acked = z.acked /\ y.status = z.status /\ y.written = z.written
      /\ y.backend = z.backend
  <2>1. y = [z EXCEPT !.closed = TRUE]
    BY <1>1 DEF z
  <2>2. y \in Transaction
    BY Zenon, <1>2, <2>1 DEF Transaction
  <2> QED BY Zenon, <1>2, <2>1, <2>2 DEF Transaction, SameDml
<1>4. /\ y.dml = x.dml /\ y.ran = x.ran /\ y.acked = x.acked /\ y.first = x.first
      /\ y.status = x.status /\ y.written = x.written
  BY <1>2, <1>3 DEF SameHistory, SameDml
<1>5. /\ y.backend = "committed" => x.backend = "committed"
      /\ x.backend = "committed" => y.backend = "committed"
      /\ y.status = "ok" /\ Usable(y) => SchemaChanges /\ x.status = "ok" /\ Usable(x)
      /\ ~SchemaChanges => Finished(y)
  BY <1>2, <1>3, <1>4 DEF Usable, Finished
<1>6. BackendInv(y)
  BY Zenon, <1>4, <1>5 DEF TxnInv, BackendInv
<1>7. RanInv(y)
  BY <1>4 DEF TxnInv, RanInv
<1>8. ReplayInv(y)
  BY Zenon, <1>4, <1>5 DEF TxnInv, ReplayInv, EntryInv
<1> QED BY Zenon, <1>3, <1>4, <1>6, <1>7, <1>8 DEF TxnInv

--------------------------------------------------------------------------------
(* The session *)

\* Nothing has happened in a new transaction.
LEMMA NewTxnInv == ASSUME NEW type \in {"rw", "pdml"} PROVE TxnInv(NewTransaction(type))
<1> DEFINE x == NewTransaction(type)
<1>1. x \in Transaction
  <2> DEFINE d == [s \in Seqno |-> None]
             q == <<>>
  <2>1. /\ d \in [Seqno -> DmlEntry \cup {None}] /\ q \in Seq(Seqno)
        /\ d \in [Seqno -> OkAnswers \cup Errors \cup {None}]
    OBVIOUS
  <2>2. x = [type |-> type, backend |-> "uninitialized", buffered |-> {}, status |-> "ok",
             closed |-> FALSE, dml |-> d, current |-> None, mode |-> "request",
             written |-> None, acked |-> {}, ran |-> q, first |-> d]
    BY Zenon DEF NewTransaction
  <2> HIDE DEF d, q, x
  <2> QED BY Zenon, <2>1, <2>2 DEF Transaction
<1>2. RanInv(x)
  BY DEF RanInv, NewTransaction
<1>3. ReplayInv(x)
  BY DEF ReplayInv, NewTransaction
<1>4. BackendInv(x)
  BY DEF BackendInv, NewTransaction
<1> QED BY <1>1, <1>2, <1>3, <1>4 DEF TxnInv

\* Ids are given out in order.
LEMMA NextIdIs ==
  ASSUME NEW n \in 0..MaxId, Created = 1..n
  PROVE  NextId = n + 1
<1>0. MaxId \in Nat
  BY SessionAssumption
<1>1. n + 1 \in 1..(MaxId + 1) /\ Created = 1..((n + 1) - 1)
  BY <1>0
<1>2. ASSUME NEW m \in 1..(MaxId + 1), Created = 1..(m - 1) PROVE m = n + 1
  <2>1. 1..(m - 1) = 1..n
    BY <1>2
  <2>2. CASE m - 1 < n
    <3>1. n \in 1..n /\ n \notin 1..(m - 1)
      BY <2>2
    <3> QED BY <2>1, <3>1
  <2>3. CASE m - 1 > n
    <3>1. m - 1 \in 1..(m - 1) /\ m - 1 \notin 1..n
      BY <2>3
    <3> QED BY <2>1, <3>1
  <2> QED BY <2>2, <2>3
<1> QED BY <1>1, <1>2 DEF NextId

\* What exists after a step.
LEMMA CreatedIs ==
  ASSUME NEW k \in 0..MaxId, NEW f, \A u \in Id : f[u] # None <=> u \in 1..k
  PROVE  {t \in Id : f[t] # None} = 1..k
BY SessionAssumption DEF Id

\* A transaction that keeps the invariant exists.
LEMMA TxnIsNotNone == ASSUME NEW x, TxnInv(x) PROVE x # None
BY NoneAssumption DEF TxnInv

\* The transactions of k, and no others, exist in x.
Exist(x, k) ==
  /\ \A u \in Id : u \in k => TxnInv(x[u])
  /\ \A u \in Id : u \notin k => x[u] = None

\* y is x with the transactions of D closed.
ClosedIn(x, k, D, y) ==
  /\ y \in [Id -> Transaction \cup {None}] /\ Exist(y, k)
  /\ \A u \in Id : u \in k => y[u].written = x[u].written
  /\ \A u \in Id : u \in D => y[u].closed
  /\ \A u \in Id : u \notin D => y[u] = x[u]

\* Closing some of the transactions that exist.
LEMMA CloseAllFields ==
  ASSUME NEW x, NEW k, NEW D, Exist(x, k), D \subseteq k, NEW y \in CloseAll(x, D)
  PROVE  ClosedIn(x, k, D, y)
<1>0. /\ \A u \in Id : u \in k => TxnInv(x[u])
      /\ \A u \in Id : u \notin k => x[u] = None
  BY DEF Exist
<1>1. /\ DOMAIN y = Id /\ y = [u \in Id |-> y[u]]
      /\ \A u \in Id : y[u] \in IF u \in D THEN Close(x[u]) ELSE {x[u]}
  BY DEF CloseAll
<1>2. ASSUME NEW u \in Id, u \in D
      PROVE  TxnInv(y[u]) /\ y[u].closed /\ y[u].written = x[u].written
  <2>1. TxnInv(x[u]) /\ y[u] \in Close(x[u])
    BY <1>0, <1>1, <1>2
  <2> QED BY Zenon, <2>1, CloseFields
<1>3. \A u \in Id : u \notin D => y[u] = x[u]
  BY <1>1
<1>4. \A u \in Id : y[u] \in Transaction \cup {None}
  BY Zenon, <1>0, <1>2, <1>3 DEF TxnInv
<1> QED BY <1>0, <1>1, <1>2, <1>3, <1>4 DEF ClosedIn, Exist

\* What a step does to the transactions that exist: what is finished has written
\* what it had written.
WrittenKept == \A t \in Created : t \in Created' /\ (Finished(txn[t]) => txn'[t].written = txn[t].written)

\* A session creates a transaction and closes those it drops.
LEMMA CreateStep ==
  ASSUME MapInv, NEW type \in {"rw", "pdml"}, NEW activate \in BOOLEAN,
         CreateMultiUseTransaction(type, activate), UNCHANGED multiplexed
  PROVE  MapInv' /\ WrittenKept /\ NextId \in Created' /\ NextId \in Id
<1>0. PICK n \in 0..MaxId : Created = 1..n
  BY DEF MapInv
<1> DEFINE t   == n + 1
           new == [txn EXCEPT ![t] = NewTransaction(type)]
<1>1. NextId = t /\ t \in Id /\ t \in 1..t /\ t \in 0..MaxId /\ MaxId \in Nat
  BY <1>0, NextIdIs, SessionAssumption DEF CreateMultiUseTransaction, Id
<1>2. /\ \A u \in Id : u \in 1..t => TxnInv(new[u])
      /\ \A u \in Id : u \notin 1..t => new[u] = None
      /\ \A u \in Created : new[u] = txn[u] /\ u \in 1..t /\ u < t
      /\ new \in [Id -> Transaction \cup {None}]
  <2>1. TxnInv(NewTransaction(type)) /\ NewTransaction(type) \in Transaction
    BY NewTxnInv DEF TxnInv
  <2>2. /\ txn \in [Id -> Transaction \cup {None}]
        /\ \A u \in Id : u \in 1..n => TxnInv(txn[u])
        /\ \A u \in Id : u \notin 1..n => txn[u] = None
    BY <1>0 DEF MapInv, Created
  <2>3. \A u \in Id : new[u] = IF u = t THEN NewTransaction(type) ELSE txn[u]
    BY <1>1, <2>2
  <2>4. \A u \in 1..t : u \in 1..n \/ u = t
    BY <1>1
  <2>5. \A u \in 1..n : u \in 1..t /\ u # t /\ u < t
    BY <1>1
  <2>6. t \in 1..t
    BY <1>1
  <2>7. new \in [Id -> Transaction \cup {None}]
    BY <1>1, <2>1, <2>2
  <2> HIDE DEF new, t
  <2>8. \A u \in Id : u \in 1..t => TxnInv(new[u])
    BY <2>1, <2>2, <2>3, <2>4
  <2>9. \A u \in Id : u \notin 1..t => new[u] = None
    BY <2>2, <2>3, <2>5, <2>6
  <2>10. \A u \in Created : new[u] = txn[u] /\ u \in 1..t /\ u < t
    BY <1>0, <2>3, <2>5 DEF Created
  <2> QED BY <2>7, <2>8, <2>9, <2>10
<1>3. map \subseteq Created /\ Created \subseteq Id
  BY DEF MapInv, Created
<1> DEFINE D == IF multiplexed THEN {} ELSE Dropped(t, activate)
<1>4. D \subseteq map \cup {t} /\ D \subseteq 1..t
  <2>1. Dropped(t, activate) \subseteq map \cup {t}
    BY DEF Dropped, Evicted, Before
  <2> HIDE DEF t
  <2> QED BY Zenon, <1>1, <1>2, <1>3, <2>1
<1>5. /\ txn' \in [Id -> Transaction \cup {None}]
      /\ \A u \in Id : u \notin 1..t => txn'[u] = None
      /\ \A u \in Id : u \in 1..t => TxnInv(txn'[u]) /\ txn'[u].written = new[u].written
      /\ \A u \in Id : u \in D => txn'[u].closed
      /\ \A u \in Id : u \notin D => txn'[u] = new[u]
  <2>1. CASE multiplexed
    <3>1. txn' = new
      BY <1>1, <2>1 DEF CreateMultiUseTransaction
    <3> HIDE DEF new, t
    <3> QED BY <1>2, <2>1, <3>1
  <2>2. CASE ~multiplexed
    <3>1. txn' \in CloseAll(new, D)
      BY <1>1, <2>2 DEF CreateMultiUseTransaction
    <3> HIDE DEF new, t, D
    <3>2. Exist(new, 1..t)
      BY <1>2 DEF Exist
    <3>3. ClosedIn(new, 1..t, D, txn')
      BY Zenon, <1>4, <3>1, <3>2, CloseAllFields
    <3> QED BY <3>3 DEF ClosedIn, Exist
  <2> QED BY <2>1, <2>2
<1>6. /\ multiplexed => map' \subseteq map \cup {t} /\ active' = active
      /\ ~multiplexed => /\ map' = (map \cup {t}) \ D
                         /\ active' = IF activate THEN t ELSE active
  BY <1>1 DEF CreateMultiUseTransaction
<1>7. ~multiplexed /\ activate => \A u \in map' : u >= t
  <2>1. ~multiplexed /\ activate => \A u \in map : u < t => u \in D
    BY DEF Dropped, Before
  <2> HIDE DEF D
  <2>2. t \in Int /\ t >= t
    BY <1>1
  <2> HIDE DEF t, new
  <2>3. ASSUME ~multiplexed, activate, NEW u \in map' PROVE u >= t
    <3>1. u \in (map \cup {t}) \ D
      BY <1>6, <2>3
    <3>2. CASE u \in map
      <4>1. u < t
        BY <1>2, <1>3, <3>2
      <4> QED BY <2>1, <2>3, <3>1, <3>2, <4>1
    <3> QED BY <2>2, <3>1, <3>2
  <2> QED BY <2>3
<1> HIDE DEF new, D
<1>8. Created' = 1..t
  <2>1. \A u \in Id : txn'[u] # None <=> u \in 1..t
    BY <1>5, TxnIsNotNone
  <2> HIDE DEF t
  <2> QED BY <1>1, <2>1, CreatedIs DEF Created
<1>9. \A u \in map' : u \in Created \/ u = t
  BY <1>3, <1>6
<1>10. active' # None =>
         active' \in Created' /\ ~multiplexed' /\ \A u \in map' : u >= active'
  <2> HIDE DEF t
  <2>1. CASE ~multiplexed /\ activate
    BY <1>1, <1>6, <1>7, <1>8, <2>1
  <2>2. CASE multiplexed \/ ~activate
    <3>1. active' = active
      BY <1>6, <2>2
    <3>2. active # None => active \in Created /\ ~multiplexed /\ \A u \in map : u >= active
      BY DEF MapInv
    <3>3. active # None => active \in 1..t /\ active < t /\ active \in Int /\ t \in Int
      BY <1>1, <1>2, <3>2
    <3>4. map' \subseteq map \cup {t}
      BY <1>6
    <3> QED BY <1>8, <3>1, <3>2, <3>3, <3>4
  <2> QED BY <2>1, <2>2
<1>11. ~multiplexed' => \A u \in Created' \ map' : txn'[u].closed
  <2> SUFFICES ASSUME ~multiplexed, NEW u \in 1..t, u \notin map' PROVE txn'[u].closed
    BY <1>8
  <2>1. u \in Id
    BY <1>1 DEF Id
  <2>2. CASE u \in D
    BY <1>5, <2>1, <2>2
  <2>3. CASE u \notin D
    <3>1. u \notin map /\ u # t
      BY <1>6, <2>3
    <3>2. u \in Created
      BY <1>0, <1>1, <3>1
    <3>3. txn[u].closed
      BY <3>1, <3>2 DEF MapInv
    <3> HIDE DEF t
    <3> QED BY <1>2, <1>5, <2>1, <2>3, <3>2, <3>3
  <2> QED BY <2>2, <2>3
<1>12. MapInv'
  <2> HIDE DEF t
  <2>1. \A u \in Created' : TxnInv(txn'[u])
    BY <1>5, <1>8 DEF Created
  <2>2. map' \subseteq Created'
    BY <1>1, <1>2, <1>8, <1>9
  <2>3. \E k \in 0..MaxId : Created' = 1..k
    BY <1>1, <1>8
  <2>4. multiplexed' \in BOOLEAN
    BY DEF MapInv
  <2> QED BY Zenon, <1>5, <1>10, <1>11, <2>1, <2>2, <2>3, <2>4 DEF MapInv
<1>13. WrittenKept
  <2> HIDE DEF t
  <2> QED BY <1>2, <1>3, <1>5, <1>8 DEF WrittenKept
<1> QED BY <1>1, <1>8, <1>12, <1>13

\* Using a transaction closes those before it.
LEMMA UseStep ==
  ASSUME MapInv, ~multiplexed, NEW t \in map, active' = t, txn' \in CloseAll(txn, Before(t)),
         map' = map \ Before(t), UNCHANGED multiplexed
  PROVE  MapInv' /\ WrittenKept /\ t \in Created'
<1>0. PICK n \in 0..MaxId : Created = 1..n
  BY DEF MapInv
<1>1. /\ map \subseteq Created /\ Created \subseteq Id /\ t \in Created
      /\ Before(t) \subseteq map /\ n \in Int
  BY DEF MapInv, Created, Before
<1>2. Exist(txn, Created)
  BY DEF Exist, MapInv, Created
<1>3. ClosedIn(txn, Created, Before(t), txn')
  <2> DEFINE k == Created
             D == Before(t)
  <2>1. Exist(txn, k) /\ D \subseteq k /\ txn' \in CloseAll(txn, D)
    BY <1>1, <1>2
  <2> HIDE DEF k, D
  <2>2. ClosedIn(txn, k, D, txn')
    BY <2>1, CloseAllFields
  <2> QED BY <2>2 DEF k, D
<1>4. Created' = Created
  <2>1. \A u \in Id : txn'[u] # None <=> u \in Created
    BY <1>3, TxnIsNotNone DEF ClosedIn, Exist
  <2> QED BY <1>1, <2>1 DEF Created
<1>5. \A u \in map' : u >= t
  BY <1>0, <1>1 DEF Before
<1>6. \A u \in Created \ map' : txn'[u].closed
  <2> SUFFICES ASSUME NEW u \in Created, u \notin map' PROVE txn'[u].closed
    OBVIOUS
  <2>1. u \in Before(t) \/ (u \notin Before(t) /\ u \notin map)
    OBVIOUS
  <2>2. CASE u \in Before(t)
    BY <1>1, <1>3, <2>2 DEF ClosedIn
  <2>3. CASE u \notin Before(t) /\ u \notin map
    BY <1>1, <1>3, <2>3 DEF ClosedIn, MapInv
  <2> QED BY <2>1, <2>2, <2>3
<1>7. MapInv'
  <2>1. \A u \in Created' : TxnInv(txn'[u])
    BY <1>1, <1>3, <1>4 DEF ClosedIn, Exist
  <2> QED BY Zenon, <1>0, <1>1, <1>3, <1>4, <1>5, <1>6, <2>1 DEF MapInv, ClosedIn
<1> QED BY <1>1, <1>3, <1>4, <1>7 DEF WrittenKept, ClosedIn

\* A request that has found its transaction holds it.
LEMMA AcceptStep ==
  ASSUME HeldInv, Created \subseteq Created', NEW p \in Rpc, NEW t \in Created', t \in Id,
         NEW b \in BOOLEAN, Accept(p, t, b)
  PROVE  HeldInv'
<1>1. held' = [held EXCEPT ![p] = t] /\ begins' = [begins EXCEPT ![p] = b]
  BY DEF Accept
<1>2. held \in [Rpc -> Id \cup {None}] /\ begins \in [Rpc -> BOOLEAN]
  BY DEF HeldInv
<1>3. held' \in [Rpc -> Id \cup {None}] /\ begins' \in [Rpc -> BOOLEAN]
  BY <1>1, <1>2
<1>4. \A q \in Rpc : held'[q] = held[q] \/ held'[q] = t
  BY <1>1, <1>2
<1> QED BY <1>3, <1>4 DEF HeldInv

\* Between the answers.
LEMMA NoReplyInv == ASSUME reply' = NoReply PROVE ReplyInv'
BY DEF NoReply, ReplyInv, CommittedIsNotRetried, ReplaysAgree

\* A request is answered.
LEMMA AnswerStep ==
  ASSUME SessionInv, NEW p \in Rpc, NEW o, NEW s, NEW r, NEW results,
         Answer(p, o, s, r, results),
         \A res \in GuardedCall(o, txn[held[p]], results) :
           LET w == Answered(txn[held[p]], o, s, res) IN
           /\ Serves(txn[held[p]], w, res.answer)
           /\ o = "dml" => Agrees(w, s, r, res.answer)
  PROVE  SessionInv' /\ WrittenKept
<1> DEFINE t == held[p]
           x == txn[t]
<1>1. PICK res \in GuardedCall(o, x, results) :
        /\ txn' = [txn EXCEPT ![t] = Answered(x, o, s, res)]
        /\ reply' = [op |-> o, id |-> t, seqno |-> s, request |-> r, answer |-> res.answer]
  BY Zenon DEF Answer, Answered
<1>2. /\ t # None /\ held' = [held EXCEPT ![p] = None]
      /\ begins' = [begins EXCEPT ![p] = FALSE]
      /\ UNCHANGED <<multiplexed, sessionVars>>
  BY DEF Answer
<1>3. t \in Created /\ t \in Id /\ TxnInv(x)
  BY Zenon, <1>2 DEF SessionInv, HeldInv, MapInv, Created
<1> DEFINE w == Answered(x, o, s, res)
<1>4. Serves(x, w, res.answer) /\ (o = "dml" => Agrees(w, s, r, res.answer))
  BY Zenon
<1> HIDE DEF x, w
<1>5. /\ txn' = [txn EXCEPT ![t] = w] /\ txn \in [Id -> Transaction \cup {None}]
      /\ TxnInv(w) /\ w # None /\ w \in Transaction /\ w.closed = x.closed /\ x = txn[t]
  <2>1. w # None
    BY <1>4, TxnIsNotNone DEF Serves
  <2> QED BY Zenon, <1>1, <1>4, <2>1 DEF Serves, TxnInv, SessionInv, MapInv, w, x
<1> HIDE DEF t
<1>6. /\ txn' \in [Id -> Transaction \cup {None}] /\ txn'[t] = w
      /\ \A u \in Id : u # t => txn'[u] = txn[u]
  BY <1>3, <1>5
<1>7. Created' = Created
  BY <1>3, <1>5, <1>6 DEF Created
<1>8. MapInv'
  <2>1. /\ \A u \in Created : TxnInv(txn[u])
        /\ \E n \in 0..MaxId : Created = 1..n
        /\ map \subseteq Created /\ multiplexed \in BOOLEAN
        /\ active # None => active \in Created /\ ~multiplexed /\ \A u \in map : u >= active
        /\ ~multiplexed => \A u \in Created \ map : txn[u].closed
    BY DEF SessionInv, MapInv
  <2>2. \A u \in Created : TxnInv(txn'[u]) /\ txn'[u].closed = txn[u].closed
    BY <1>5, <1>6, <2>1 DEF Created
  <2>3. map' = map /\ active' = active /\ multiplexed' = multiplexed
    BY <1>2 DEF sessionVars
  <2>4. ~multiplexed => \A u \in Created \ map : txn'[u].closed
    BY Zenon, <2>1, <2>2
  <2> QED BY Zenon, <1>6, <1>7, <2>1, <2>2, <2>3, <2>4 DEF MapInv
<1>9. HeldInv'
  <2>1. /\ held \in [Rpc -> Id \cup {None}] /\ begins \in [Rpc -> BOOLEAN]
        /\ \A q \in Rpc : held[q] # None => held[q] \in Created
    BY DEF SessionInv, HeldInv
  <2>2. held' \in [Rpc -> Id \cup {None}] /\ begins' \in [Rpc -> BOOLEAN]
    BY <1>2, <2>1
  <2>3. \A q \in Rpc : held'[q] = held[q] \/ held'[q] = None
    BY <1>2, <2>1
  <2> QED BY <1>7, <2>1, <2>2, <2>3 DEF HeldInv
<1>10. ReplyInv'
  <2>1. /\ reply'.id = t /\ reply'.answer = res.answer /\ reply'.op = o
        /\ reply'.seqno = s /\ reply'.request = r
    BY <1>1
  <2>2. CommittedIsNotRetried'
    BY <1>4, <1>6, <2>1 DEF CommittedIsNotRetried, Serves
  <2>3. Boosted = {} => ReplaysAgree'
    BY <1>4, <1>6, <2>1 DEF ReplaysAgree, Agrees
  <2> QED BY Zenon, <2>2, <2>3 DEF ReplyInv
<1>11. WrittenKept
  BY <1>3, <1>4, <1>5, <1>6, <1>7 DEF WrittenKept, Serves, Created
<1> QED BY Zenon, <1>8, <1>9, <1>10, <1>11 DEF SessionInv

\* What the results of a handler of DML requests leave.
LEMMA DmlServes ==
  ASSUME NEW x, TxnInv(x), NEW s \in Seqno, NEW r \in Requests, NEW results,
         \A e \in results : DmlPre(x, s, r, e.x, e.answer),
         NEW res \in GuardedCall("dml", x, results)
  PROVE  DmlServed(x, s, r, res)
<1>1. PICK e \in results : res \in AfterCall("dml", e)
  BY Zenon DEF GuardedCall
<1> DEFINE z == e.x
           a == e.answer
<1>2. AfterCall("dml", e) = AfterCall("dml", Result(z, a))
  BY DEF AfterCall, Result
<1>3. DmlPre(x, s, r, z, a)
  OBVIOUS
<1> HIDE DEF z, a
<1> QED BY <1>1, <1>2, <1>3, DmlCall

\* The requests that a client sends.
LEMMA ServeStep ==
  ASSUME SessionInv, NEW p \in Rpc, Serve(p)
  PROVE  SessionInv' /\ WrittenKept
<1> DEFINE x == txn[held[p]]
           b == begins[p]
<1>1. ASSUME held[p] # None PROVE TxnInv(x) /\ b \in BOOLEAN /\ multiplexed \in BOOLEAN
  BY <1>1 DEF SessionInv, HeldInv, MapInv
<1>2. ASSUME NEW s \in Seqno, NEW r \in Statements, ServeSql(p, s, r)
      PROVE  SessionInv' /\ WrittenKept
  <2> DEFINE R == ExecuteSql(x, s, r, b)
  <2>1. Answer(p, "dml", s, r, R) /\ held[p] # None /\ r \in Requests
    BY Zenon, <1>2 DEF ServeSql, Answer, Requests
  <2>2. TxnInv(x) /\ b \in BOOLEAN
    BY Zenon, <1>1, <2>1
  <2> HIDE DEF x, b
  <2>3. \A e \in R : DmlPre(x, s, r, e.x, e.answer)
    BY <2>2, SqlPre
  <2> HIDE DEF R
  <2>4. \A res \in GuardedCall("dml", x, R) : DmlServed(x, s, r, res)
    BY <2>1, <2>2, <2>3, DmlServes
  <2> QED BY Zenon, <2>1, <2>4, AnswerStep DEF DmlServed, x
<1>3. ASSUME NEW s \in Seqno, NEW r \in Batches, ServeBatch(p, s, r)
      PROVE  SessionInv' /\ WrittenKept
  <2> DEFINE R == ExecuteBatchDml(x, s, r, b)
  <2>1. Answer(p, "dml", s, r, R) /\ held[p] # None /\ r \in Requests
    BY Zenon, <1>3 DEF ServeBatch, Requests
  <2>2. TxnInv(x) /\ b \in BOOLEAN
    BY <1>1, <2>1
  <2> HIDE DEF x, b
  <2>3. \A e \in R : DmlPre(x, s, r, e.x, e.answer)
    BY <2>2, BatchPre
  <2> HIDE DEF R
  <2>4. \A res \in GuardedCall("dml", x, R) : DmlServed(x, s, r, res)
    BY <2>1, <2>2, <2>3, DmlServes
  <2> QED BY Zenon, <2>1, <2>4, AnswerStep DEF DmlServed, x
<1>4. ASSUME ServeRead(p) PROVE SessionInv' /\ WrittenKept
  <2> DEFINE R == Read(x, b)
  <2>1. Answer(p, "read", None, None, R) /\ held[p] # None
    BY Zenon, <1>4 DEF ServeRead, Answer
  <2>2. TxnInv(x) /\ b \in BOOLEAN
    BY Zenon, <1>1, <2>1
  <2> HIDE DEF x, b
  <2>3. x.status = "ok" =>
          \A e \in R : PlainPre("read", x, e.x, e.answer) /\ e = Result(e.x, e.answer)
    BY <2>2, ReadPre
  <2> HIDE DEF R
  <2>4. \A res \in GuardedCall("read", x, R) :
          Serves(x, Answered(x, "read", None, res), res.answer)
    BY <2>2, <2>3, PlainServes
  <2> QED BY Zenon, <2>1, <2>4, AnswerStep DEF x
<1>5. ASSUME ServeCommit(p) PROVE SessionInv' /\ WrittenKept
  <2>1. PICK m \in BOOLEAN, token \in BOOLEAN :
          Answer(p, "commit", None, None, Commit(x, m, multiplexed /\ ~token))
    BY Zenon, <1>5 DEF ServeCommit
  <2> DEFINE k == multiplexed /\ ~token
             R == Commit(x, m, k)
  <2>2. TxnInv(x) /\ k \in BOOLEAN
    BY Zenon, <1>1, <1>5 DEF ServeCommit
  <2>3. Answer(p, "commit", None, None, R)
    BY <2>1
  <2> HIDE DEF x, k
  <2>4. x.status = "ok" =>
          \A e \in R : PlainPre("commit", x, e.x, e.answer) /\ e = Result(e.x, e.answer)
    BY <2>2, CommitPre
  <2> HIDE DEF R
  <2>5. \A res \in GuardedCall("commit", x, R) :
          Serves(x, Answered(x, "commit", None, res), res.answer)
    BY <2>2, <2>4, PlainServes
  <2> QED BY Zenon, <2>3, <2>5, AnswerStep DEF x
<1>6. ASSUME ServeRollback(p) PROVE SessionInv' /\ WrittenKept
  <2>1. Answer(p, "rollback", None, None, Rollback(x)) /\ TxnInv(x)
    BY Zenon, <1>1, <1>6 DEF ServeRollback
  <2> HIDE DEF x
  <2>2. \A res \in GuardedCall("rollback", x, Rollback(x)) :
          Serves(x, Answered(x, "rollback", None, res), res.answer)
    BY <2>1, RollbackServes
  <2> QED BY Zenon, <2>1, <2>2, AnswerStep DEF x
<1> QED BY <1>2, <1>3, <1>4, <1>5, <1>6 DEF Serve

\* Every step of the session and its requests.
LEMMA SessionStep ==
  ASSUME SessionInv, SessionNext
  PROVE  SessionInv' /\ WrittenKept
<1>0. MapInv /\ HeldInv /\ ReplyInv
  BY DEF SessionInv
<1>1. ASSUME NEW type \in {"rw", "pdml"}, BeginTransaction(type)
      PROVE  SessionInv' /\ WrittenKept
  <2>1. MapInv' /\ WrittenKept
    BY Zenon, <1>0, <1>1, CreateStep DEF BeginTransaction
  <2>2. HeldInv'
    BY Zenon, <1>0, <1>1, <2>1 DEF BeginTransaction, HeldInv, WrittenKept
  <2> QED BY <1>1, <2>1, <2>2, NoReplyInv DEF SessionInv, BeginTransaction
<1>2. ASSUME NEW p \in Rpc, NEW type \in {"rw", "pdml"}, InitTransaction(p, type)
      PROVE  SessionInv' /\ WrittenKept
  <2>1. MapInv' /\ WrittenKept /\ NextId \in Created' /\ NextId \in Id
    BY Zenon, <1>0, <1>2, CreateStep DEF InitTransaction
  <2>2. Accept(p, NextId, TRUE) /\ reply' = NoReply
    BY Zenon, <1>2 DEF InitTransaction
  <2>3. Created \subseteq Created'
    BY <2>1 DEF WrittenKept
  <2> DEFINE t == NextId
  <2>4. t \in Created' /\ t \in Id /\ Accept(p, t, TRUE)
    BY Zenon, <2>1, <2>2
  <2> HIDE DEF t
  <2>5. HeldInv'
    BY Zenon, <1>0, <2>3, <2>4, AcceptStep
  <2> QED BY <2>1, <2>2, <2>5, NoReplyInv DEF SessionInv
<1>3. ASSUME UNCHANGED <<multiplexed, txn, map, active>>
      PROVE  MapInv' /\ WrittenKept /\ Created' = Created
  BY <1>0, <1>3 DEF MapInv, WrittenKept, Created
<1>4. ASSUME NEW p \in Rpc, NEW t \in Id, FindAndUseTransaction(p, t)
      PROVE  SessionInv' /\ WrittenKept
  <2>0. ~multiplexed /\ UNCHANGED multiplexed /\ ReplyInv'
    BY <1>4, NoReplyInv DEF FindAndUseTransaction
  <2>1. CASE t \in map /\ ~txn[t].closed
    <3>1. /\ active' = t /\ txn' \in CloseAll(txn, Before(t)) /\ map' = map \ Before(t)
          /\ Accept(p, t, FALSE)
      BY Zenon, <1>4, <2>1 DEF FindAndUseTransaction
    <3>2. MapInv' /\ WrittenKept /\ t \in Created'
      BY <1>0, <2>0, <2>1, <3>1, UseStep
    <3>3. Created \subseteq Created'
      BY <3>2 DEF WrittenKept
    <3>4. HeldInv'
      BY Zenon, <1>0, <3>1, <3>2, <3>3, AcceptStep
    <3> QED BY <2>0, <3>2, <3>4 DEF SessionInv
  <2>2. CASE ~(t \in map /\ ~txn[t].closed)
    <3>1. UNCHANGED <<multiplexed, txn, map, active, held, begins>>
      BY Zenon, <1>4, <2>0, <2>2 DEF FindAndUseTransaction
    <3>2. MapInv' /\ WrittenKept /\ Created' = Created
      BY <1>3, <3>1
    <3>3. HeldInv'
      BY <1>0, <3>1, <3>2 DEF HeldInv
    <3> QED BY <2>0, <3>2, <3>3 DEF SessionInv
  <2> QED BY <2>1, <2>2
<1>5. ASSUME NEW p \in Rpc, NEW t \in Id, FindMultiplexedTransaction(p, t)
      PROVE  SessionInv' /\ WrittenKept
  <2>1. /\ UNCHANGED <<multiplexed, txn, map, active>> /\ t \in map
        /\ Accept(p, t, FALSE) /\ reply' = NoReply
    BY Zenon, <1>5 DEF FindMultiplexedTransaction, sessionVars
  <2>2. MapInv' /\ WrittenKept /\ Created' = Created
    BY <1>3, <2>1
  <2>3. t \in Created'
    BY <1>0, <2>1, <2>2 DEF MapInv
  <2>4. HeldInv'
    BY Zenon, <1>0, <2>1, <2>2, <2>3, AcceptStep
  <2> QED BY <2>1, <2>2, <2>4, NoReplyInv DEF SessionInv
<1> QED BY <1>1, <1>2, <1>4, <1>5, ServeStep DEF SessionNext

\* The session starts without transactions.
LEMMA SessionStart == SessionInit => SessionInv
<1> SUFFICES ASSUME SessionInit PROVE SessionInv
  OBVIOUS
<1>1. Created = {} /\ Created = 1..0 /\ 0 \in 0..MaxId
  BY SessionAssumption DEF SessionInit, Created
<1>2. MapInv
  <2>1. multiplexed \in BOOLEAN /\ txn \in [Id -> Transaction \cup {None}]
    BY SessionAssumption DEF SessionInit
  <2> QED BY <1>1, <2>1 DEF MapInv, SessionInit
<1>3. HeldInv
  BY DEF HeldInv, SessionInit
<1>4. ReplyInv
  BY DEF ReplyInv, SessionInit, NoReply, CommittedIsNotRetried, ReplaysAgree
<1> QED BY <1>2, <1>3, <1>4 DEF SessionInv

--------------------------------------------------------------------------------
(* Theorems *)

\* The inductive invariant of the session and its transactions, for every
\* interleaving of requests with the session's closing of transactions.
THEOREM SessionInvariance == SessionSpec => []SessionInv
<1>1. SessionInv /\ [SessionNext]_vars => SessionInv'
  <2> SUFFICES ASSUME SessionInv, [SessionNext]_vars PROVE SessionInv'
    OBVIOUS
  <2>1. CASE SessionNext
    BY <2>1, SessionStep
  <2>2. CASE UNCHANGED vars
    BY Zenon, <2>2 DEF vars, sessionVars, SessionInv, MapInv, HeldInv, ReplyInv, Created,
       CommittedIsNotRetried, ReplaysAgree
  <2> QED BY <2>1, <2>2
<1> QED BY <1>1, SessionStart, PTL DEF SessionSpec

\* Once a transaction is used, those begun before it are closed, whichever
\* requests began and found them (Session::FindAndUseTransaction).
THEOREM PredecessorsTheorem == SessionSpec => []PredecessorsAreClosed
<1>1. SessionInv => PredecessorsAreClosed
  <2> SUFFICES ASSUME SessionInv, active # None, NEW t \in Created, t < active
               PROVE  txn[t].closed
    BY DEF PredecessorsAreClosed
  <2>1. active \in Created /\ ~multiplexed /\ \A u \in map : u >= active
    BY DEF SessionInv, MapInv
  <2>2. t \in Int /\ active \in Int
    BY <2>1, SessionAssumption DEF Created, Id
  <2>3. t \notin map
    BY <2>1, <2>2
  <2> QED BY <2>1, <2>3 DEF SessionInv, MapInv
<1> QED BY <1>1, SessionInvariance, PTL

\* DML statements run in the order of their sequence numbers and each at most
\* once, however often and in which order requests arrive
\* (LookupOrRegisterDmlRequest).
THEOREM DmlOrderTheorem == SessionSpec => []DmlRunsInOrder
<1>1. SessionInv => DmlRunsInOrder
  BY Zenon DEF SessionInv, MapInv, TxnInv, RanInv, DmlRunsInOrder
<1> QED BY <1>1, SessionInvariance, PTL

\* No client is told to retry what has committed (GuardedCall, Commit).
THEOREM NotRetriedTheorem == SessionSpec => []CommittedIsNotRetried
<1>1. SessionInv => CommittedIsNotRetried
  BY DEF SessionInv, ReplyInv
<1> QED BY <1>1, SessionInvariance, PTL

\* A DML statement that is sent again is answered as it was the first time, if no
\* statement is refused for data boost: that refusal comes before the lookup, and
\* GuardedCall records it for the request before (RequestReplayState).
THEOREM ReplaysTheorem ==
  ASSUME Boosted = {}
  PROVE  SessionSpec => []ReplaysAgree
<1>1. SessionInv => ReplaysAgree
  BY DEF SessionInv, ReplyInv
<1> QED BY <1>1, SessionInvariance, PTL

\* What commits has every statement that was acknowledged in the transaction, if
\* no schema change makes a rollback abort (status_ in GuardedCall, Close).
THEOREM AcknowledgedTheorem ==
  ASSUME ~SchemaChanges
  PROVE  SessionSpec => []AcknowledgedDmlIsCommitted
<1>1. SessionInv => AcknowledgedDmlIsCommitted
  BY Zenon DEF SessionInv, MapInv, TxnInv, BackendInv, AcknowledgedDmlIsCommitted
<1> QED BY <1>1, SessionInvariance, PTL

\* A transaction that its session has closed does not commit, although requests
\* that found it before are still running, if no schema change makes the rollback
\* of Close abort (Transaction::Close).
THEOREM ClosedTheorem ==
  ASSUME ~SchemaChanges
  PROVE  SessionSpec => ClosedNeverCommits
<1>1. SessionInv /\ [SessionNext]_vars =>
        [\A t \in Created : txn[t].closed => txn'[t].written = txn[t].written]_vars
  <2> SUFFICES ASSUME SessionInv, SessionNext, NEW t \in Created, txn[t].closed
               PROVE  txn'[t].written = txn[t].written
    OBVIOUS
  <2>1. Finished(txn[t])
    BY DEF SessionInv, MapInv, TxnInv, BackendInv
  <2> QED BY Zenon, <2>1, SessionStep DEF WrittenKept
<1> QED BY <1>1, SessionInvariance, PTL DEF SessionSpec, ClosedNeverCommits

================================================================================
