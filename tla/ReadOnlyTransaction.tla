-------------------------- MODULE ReadOnlyTransaction --------------------------
(******************************************************************************)
(* Read-only transactions beside the read-write ones: ReadOnlyTransaction     *)
(* (the choice of a read timestamp, its schema, its reads) and the part of    *)
(* VersionedCatalog that they depend on, the removal of expired schemas by    *)
(* schema changes and by the sweeps of the memory reclaimer.                  *)
(*                                                                            *)
(* A read-only transaction takes no lock.  It waits until its timestamp is    *)
(* safe, then looks at the catalog and at the storage in separate steps, with *)
(* commits, schema changes and sweeps in between.  To the read-write          *)
(* transactions it is one more caller of Clock::Now.                          *)
(******************************************************************************)
EXTENDS ReadWriteTransaction

CONSTANTS
  Ro,          \* read-only transactions
  Bounds,      \* the timestamp bounds they use
  Sweeps       \* whether expired schemas are swept, not only removed by DDL

TimestampBound == {"StrongRead", "ExactTimestamp", "ExactStaleness",
                   "MinTimestamp", "MaxStaleness"}

ASSUME ReadersAssumption ==
  Bounds \subseteq TimestampBound /\ Sweeps \in BOOLEAN /\ None \notin Ro

VARIABLES
  ro,          \* the read-only transactions
  erased,      \* creation times of the schemas no longer in schemas_
  dropped,     \* history: those of them that a schema change removed
  sweptBegin,  \* VersionedCatalog::swept_begin_
  sweptEnd,    \* VersionedCatalog::swept_end_
  sweepTime    \* the time a running sweep has taken from the clock

sweepVars == <<erased, dropped, sweptBegin, sweptEnd>>
roVars    == <<ro, sweepVars, sweepTime>>

\* ts is read_timestamp_, period version_retention_period_, schema and swept
\* are schema_holder_ and schema_swept_, pick is what PickReadTimestamp has
\* computed so far.  History: floor, the least timestamp the bound allows;
\* safeAt, the clock when the wait before the schema was taken ended; seen, what
\* reads returned.
NewRo == [pc |-> "new", ts |-> 0, period |-> 0, pick |-> 0, floor |-> 0,
          schema |-> None, swept |-> FALSE, safeAt |-> 0,
          seen |-> NotRead]

\* A step that calls Clock::Now, and one that does not.
TakeNow == Dispense /\ UNCHANGED <<rwVars, op, ddlVars>>
NoNow   == UNCHANGED allVars

Move(r, from, to) == ro[r].pc = from /\ ro' = [ro EXCEPT ![r].pc = to]

--------------------------------------------------------------------------------
(* VersionedCatalog *)

\* The schemas that are still in schemas_.
Kept == {s \in Time : catalog[s] # None} \ erased

GetSchemaShared(t) == catalog[Max({s \in Kept : s <= t})]

IsSwept_Bug(t) == sweptBegin < t /\ t < sweptEnd

IsSwept(t) == sweptBegin <= t /\ t < sweptEnd

Removed_Bug(t) == {s \in Kept \ {0} : s <= t - period}

\* What RemoveExpiredSchemas removes at time t: all that were replaced before
\* the retention period, but the first.
Removed(t) ==
  {s \in Kept \ {0} : \E u \in Kept : s < u /\ u <= t - period}

\* RemoveExpiredSchemas by a schema change at t.
RemoveExpiredSchemas(t) ==
  /\ erased' = erased \cup Removed(t)
  /\ dropped' = dropped \cup Removed(t)
  /\ UNCHANGED <<sweptBegin, sweptEnd>>

\* The start of the swept range after a sweep at t.
SweptFrom(t) == IF sweptBegin = sweptEnd THEN Min(Removed(t)) ELSE sweptBegin

SweptTo_Bug(t) == t - period + 1

\* Its end: the schema kept after the removed ones.
SweptTo(t) == Max({s \in Kept : s <= t - period})

\* RemoveExpiredSchemas by a sweep at t, which remembers what it removed.
SweepExpiredSchemas(t) ==
  /\ erased' = erased \cup Removed(t)
  /\ IF Removed(t) = {} THEN UNCHANGED <<sweptBegin, sweptEnd>>
     ELSE /\ sweptBegin' = SweptFrom(t)
          /\ sweptEnd' = SweptTo(t)
  /\ UNCHANGED dropped

\* Database::RemoveExpiredSchemas takes the time before the catalog's mutex.
StartSweep ==
  /\ Sweeps
  /\ sweepTime = None
  /\ TakeNow
  /\ sweepTime' = NowValue
  /\ UNCHANGED <<ro, sweepVars>>

FinishSweep ==
  /\ sweepTime # None
  /\ SweepExpiredSchemas(sweepTime)
  /\ sweepTime' = None
  /\ NoNow
  /\ UNCHANGED ro

--------------------------------------------------------------------------------
(* PickReadTimestamp *)

\* The constructor notes the retention period before it picks a timestamp.
Create(r) ==
  /\ ro[r].pc = "new"
  /\ ro' = [ro EXCEPT ![r].pc = "created", ![r].period = period]
  /\ NoNow
  /\ UNCHANGED <<sweepVars, sweepTime>>

Asks(r, bound) == ro[r].pc = "created" /\ bound \in Bounds

\* The timestamp is picked right away, or from a minimum in further steps; b is
\* the least one that the bound allows.
Open(r, t, b) == ro' = [ro EXCEPT ![r].pc = "open", ![r].ts = t, ![r].floor = b]

Choose(r, min, b) ==
  ro' = [ro EXCEPT ![r].pc = "bounded", ![r].pick = min, ![r].floor = b]

StrongRead(r) ==
  /\ Asks(r, "StrongRead")
  /\ TakeNow
  /\ Open(r, NowValue, lastCommit + 1)
  /\ UNCHANGED <<sweepVars, sweepTime>>

ExactTimestamp(r, t) ==
  /\ Asks(r, "ExactTimestamp")
  /\ NoNow
  /\ Open(r, t, t)
  /\ UNCHANGED <<sweepVars, sweepTime>>

ExactStaleness(r, d) ==
  /\ Asks(r, "ExactStaleness")
  /\ TakeNow
  /\ d <= NowValue
  /\ Open(r, NowValue - d, NowValue - d)
  /\ UNCHANGED <<sweepVars, sweepTime>>

\* A minimum in the future is waited for.
MinTimestamp(r, t) ==
  /\ Asks(r, "MinTimestamp")
  /\ TakeNow
  /\ IF t >= NowValue THEN Open(r, t, t) ELSE Choose(r, t, Max({t, lastCommit + 1}))
  /\ UNCHANGED <<sweepVars, sweepTime>>

MaxStaleness(r, d) ==
  /\ Asks(r, "MaxStaleness")
  /\ TakeNow
  /\ d <= NowValue
  /\ Choose(r, NowValue - d, Max({NowValue - d, lastCommit + 1}))
  /\ UNCHANGED <<sweepVars, sweepTime>>

\* get_random_stale_timestamp: the minimum is raised to the last commit, ...
RaiseMinimum(r) ==
  /\ ro[r].pc = "bounded"
  /\ ro' = [ro EXCEPT ![r].pc = "raised", ![r].pick = Max({@, lastCommit})]
  /\ NoNow
  /\ UNCHANGED <<sweepVars, sweepTime>>

DrawStaleness_Bug(r) ==
  /\ ro[r].pc = "raised"
  /\ TakeNow
  /\ \E d \in 0..NowValue : ro' = [ro EXCEPT ![r].pc = "drawn", ![r].pick = d]
  /\ UNCHANGED <<sweepVars, sweepTime>>

\* ... a staleness is drawn, ...
DrawStaleness(r) ==
  /\ ro[r].pc = "raised"
  /\ TakeNow
  /\ \E d \in 0..(NowValue - ro[r].pick - 1) : ro' = [ro EXCEPT ![r].pc = "drawn", ![r].pick = d]
  /\ UNCHANGED <<sweepVars, sweepTime>>

\* ... and taken from the time of another call of Now.
StaleTimestamp(r) ==
  /\ ro[r].pc = "drawn"
  /\ TakeNow
  /\ ro' = [ro EXCEPT ![r].pc = "open", ![r].ts = NowValue - ro[r].pick,
                   ![r].pick = 0]
  /\ UNCHANGED <<sweepVars, sweepTime>>

PickReadTimestamp(r) ==
  \/ Create(r)
  \/ StrongRead(r)
  \/ \E t \in Time : ExactTimestamp(r, t) \/ MinTimestamp(r, t)
  \/ \E d \in Time : ExactStaleness(r, d) \/ MaxStaleness(r, d)
  \/ RaiseMinimum(r)
  \/ DrawStaleness(r)
  \/ StaleTimestamp(r)

--------------------------------------------------------------------------------
(* schema() and Read *)

WaitForSafeRead_Bug(r, from, due, to) ==
  /\ \/ Move(r, from, due) /\ systemTime >= ro[r].ts
     \/ Move(r, due, to)
  /\ NoNow
  /\ UNCHANGED <<sweepVars, sweepTime>>

\* WaitForSafeRead: the time comes, then the commits up to it complete.
WaitForSafeRead(r, from, due, to) ==
  /\ \/ Move(r, from, due) /\ systemTime >= ro[r].ts
     \/ /\ ro[r].pc = due
        /\ NoPendingUpTo(ro[r].ts)
        /\ ro' = [ro EXCEPT ![r].pc = to,
                            ![r].safeAt = IF ro[r].schema = None THEN lastDispensed ELSE @]
  /\ NoNow
  /\ UNCHANGED <<sweepVars, sweepTime>>

\* SchemaShared, after its wait: the first call takes the schema for good.
SchemaShared(r, ok, swept) ==
  LET taken == IF ro[r].schema # None THEN ro[r]
               ELSE [ro[r] EXCEPT !.schema = GetSchemaShared(ro[r].ts),
                                  !.swept = IsSwept(ro[r].ts)]
  IN  ro' = [ro EXCEPT ![r] = [taken EXCEPT !.pc = IF taken.swept THEN swept ELSE ok]]

\* schema(), or ValidateSchemaRetained by the handlers: the whole call.
TakeSchema(r) ==
  \/ WaitForSafeRead(r, "open", "schema due", "schema")
  \/ /\ ro[r].pc = "schema"
     /\ SchemaShared(r, "open", "open")
     /\ NoNow
     /\ UNCHANGED <<sweepVars, sweepTime>>

\* Read: the timestamp must lie in the retention period the transaction began
\* with, ...
CheckRetention(r) ==
  /\ ro[r].pc = "check"
  /\ TakeNow
  /\ ro' = [ro EXCEPT ![r].pc =
              IF NowValue - ro[r].ts >= ro[r].period THEN "open" ELSE "checked"]
  /\ UNCHANGED <<sweepVars, sweepTime>>

\* ... its schema must not have been swept, ...
ValidateSchemaRetained(r) ==
  /\ ro[r].pc = "retained"
  /\ SchemaShared(r, "reading", "open")
  /\ NoNow
  /\ UNCHANGED <<sweepVars, sweepTime>>

\* ... and the storage is read, one row or range after the other.
ReadStorage(r, k) ==
  /\ ro[r].pc = "reading"
  /\ \E to \in {"reading", "open"} :
       ro' = [ro EXCEPT ![r].pc = to, ![r].seen[k] = StoredAt(k, ro[r].ts)]
  /\ NoNow
  /\ UNCHANGED <<sweepVars, sweepTime>>

ReadOnlyRead(r) ==
  \/ WaitForSafeRead(r, "open", "read due", "check")
  \/ CheckRetention(r)
  \/ WaitForSafeRead(r, "checked", "checked due", "retained")
  \/ ValidateSchemaRetained(r)
  \/ \E k \in Key : ReadStorage(r, k)

--------------------------------------------------------------------------------
(* Specification *)

ROInit ==
  /\ RWInit
  /\ ro = [r \in Ro |-> NewRo]
  /\ erased = {}
  /\ dropped = {}
  /\ sweptBegin = 0
  /\ sweptEnd = 0
  /\ sweepTime = None

\* A schema change removes expired schemas once its retention period is set.
ApplyRetentionAndExpire(d) ==
  /\ ApplyRetention(d)
  /\ RemoveExpiredSchemas(commitTs[d])
  /\ UNCHANGED <<ro, sweepTime>>

\* Everything else that transactions and schema changes do.
Others ==
  /\ \/ \E t \in Txn : Call(t) \/ DataStep(t) \/ CommitCall(t)
     \/ \E d \in Ddl : \/ ChangeSchema(d)
                       \/ AddSchema(d)
                       \/ AddActionsForSchema(d)
                       \/ EndSchemaChange(d)
     \/ SystemStep
  /\ UNCHANGED roVars

RONext ==
  \/ \E r \in Ro : PickReadTimestamp(r) \/ TakeSchema(r) \/ ReadOnlyRead(r)
  \/ StartSweep
  \/ FinishSweep
  \/ \E d \in Ddl : ApplyRetentionAndExpire(d)
  \/ Others

everything == <<allVars, roVars>>

ROSpec == ROInit /\ [][RONext]_everything

--------------------------------------------------------------------------------
(* Properties *)

Picking == {"new", "created", "bounded", "raised", "drawn"}

\* A read timestamp meets its bound: it is not before the minimum or the
\* staleness asked for, and strong and bounded-staleness reads see every commit
\* that was complete when the transaction was created, although the timestamp
\* is computed from several calls of Now with commits in between
\* (PickReadTimestamp).
BoundIsMet == \A r \in Ro : ro[r].pc \notin Picking => ro[r].ts >= ro[r].floor

SeenIsCurrent(r, k) == ro[r].seen[k] \in {None, ValueAt(k, ro[r].ts)}

\* A row that a read-only transaction has read is what the database held at its
\* timestamp, then and ever after, so its reads are repeatable and agree with
\* each other, also at a timestamp that was in the future; or the row's versions
\* had expired (ReadOnlyTransaction::Read).
ReadsAreOfOneMoment ==
  \A r \in Ro, k \in Key :
    SeenIsCurrent(r, k) \/ (ro[r].seen[k] = Absent /\ ro[r].ts < oldest[k])

\* The time at which the schema in effect at t was created.
Created(t) == Max(VersionsUpTo(catalog, t))

SchemaOrFallback(r) ==
  \/ ro[r].schema \in {None, GetSchema(ro[r].ts)}
  \/ ro[r].swept
  \/ Created(ro[r].ts) \in dropped

\* The schema a read-only transaction takes is the one in effect at its
\* timestamp, then and ever after, or it is marked as swept, or a schema change
\* had removed the one in effect; or the clock had not handed out the timestamp
\* when the transaction stopped waiting for it (SchemaShared).
SchemaIsInEffect == \A r \in Ro : SchemaOrFallback(r) \/ ro[r].safeAt < ro[r].ts

\* No schema in effect in the swept range is left, however sweeps and schema
\* changes alternate and although a sweep's time may be older than what a
\* schema change has removed since: a read is refused only when its schema is
\* gone (the comment on swept_begin_).
SweptRangeIsGone == \A t \in Time : IsSwept(t) => Created(t) \in erased

\* The schema in effect at any time the retention period covers is never
\* removed, nor is the latest one (RemoveExpiredSchemas).
CoveredSchemasAreKept ==
  [][\A t \in Time : lastDispensed <= t + period => Created(t) \notin erased' \ erased]_everything
================================================================================
