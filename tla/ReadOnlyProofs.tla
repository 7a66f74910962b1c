---------------------------- MODULE ReadOnlyProofs -----------------------------
(******************************************************************************)
(* Proofs about read-only transactions and the catalog they read, for any     *)
(* number of readers, transactions, schema changes, rows and clock values:    *)
(* readers are invisible to everyone else, a read timestamp meets its bound,  *)
(* reads are of one moment, the schema is the one in effect or known to be    *)
(* gone, and sweeps remove what the retention period does not cover.          *)
(******************************************************************************)
EXTENDS ReadOnlyTransaction, ReadWriteProofs

--------------------------------------------------------------------------------
(* The inductive invariant *)

RoPhases == Picking \cup {"open", "schema due", "schema", "read due", "check", "checked",
                          "checked due", "retained", "reading"}

RoState == [pc : RoPhases, ts : Time, period : Nat, pick : Time, floor : Nat,
            schema : Schema \cup {None}, swept : BOOLEAN, safeAt : Time,
            seen : [Key -> Value \cup {None}]]

\* The types of the readers' state and of the catalog's sweeps.
ROTypeOK ==
  /\ ro \in [Ro -> RoState]
  /\ erased \subseteq Time /\ dropped \subseteq Time
  /\ sweptBegin \in Time /\ sweptEnd \in Time
  /\ sweepTime \in Time \cup {None}

\* The bounds that may ask for a time in the future.
FutureBounds == {"ExactTimestamp", "MinTimestamp"}

\* A reader that has waited for its time does not find the clock before it.
Steady == ~SystemClockMayStepBack \/ Bounds \cap FutureBounds = {}

\* The timestamp being computed will meet the bound.
PickInv(x) ==
  /\ x.pc = "bounded" => x.floor <= x.pick \/ x.floor <= lastCommit + 1
  /\ x.pc = "raised"  => x.floor <= x.pick + 1
  /\ x.pc = "drawn"   => x.floor + x.pick <= lastDispensed
  /\ x.pc \notin Picking => x.floor <= x.ts

\* What a reader knows of its timestamp: after its first wait the system clock
\* has reached it, after the check of the retention period the clock has handed
\* it out, and after the second wait no commit can get it.
WaitInv(x) ==
  /\ ~SystemClockMayStepBack /\ x.pc \in {"read due", "check"} => x.ts <= systemTime
  /\ Bounds \cap FutureBounds = {} /\ x.pc \notin Picking => x.ts <= lastDispensed
  /\ Steady /\ x.pc \in {"checked", "checked due"} => x.ts <= lastDispensed
  /\ Steady /\ x.pc \in {"retained", "reading"} => Frozen(x.ts)

\* What a reader has seen is what there was at its timestamp.
SeenInv(x) ==
  \A k \in Key :
    x.seen[k] # None =>
      /\ x.pc \notin Picking
      /\ Steady => /\ Frozen(x.ts)
                   /\ \/ x.seen[k] = ValueAt(k, x.ts)
                      \/ x.seen[k] = Absent /\ x.ts < oldest[k]

\* The schema of a reader, once its timestamp is frozen.
SchemaInv(x) ==
  /\ x.pc \in Picking => x.schema = None /\ x.safeAt = 0
  /\ x.pc \notin Picking /\ x.ts <= x.safeAt =>
       /\ Frozen(x.ts)
       /\ \/ x.schema \in {None, GetSchema(x.ts)}
          \/ x.swept
          \/ Created(x.ts) \in dropped

ReaderInv(x) == PickInv(x) /\ WaitInv(x) /\ SeenInv(x) /\ SchemaInv(x)

\* The schemas below the end of the swept range are gone, all but the first; a
\* schema that is gone without a schema change lies in the range.
SweepInv ==
  /\ dropped \subseteq erased
  /\ \A s \in erased : catalog[s] # None /\ s # 0
  /\ \A s \in Kept \ {0} : sweptEnd <= s
  /\ \A s \in erased \ dropped : sweptBegin <= s /\ s < sweptEnd
  /\ sweptBegin <= sweptEnd
  /\ sweptBegin < sweptEnd => sweptBegin # 0
  /\ catalog[sweptBegin] # None /\ catalog[sweptEnd] # None
  /\ sweepTime # None => sweepTime <= lastDispensed

ROInv ==
  /\ RWInv
  /\ ROTypeOK
  /\ \A r \in Ro : ReaderInv(ro[r])
  /\ SweepInv

--------------------------------------------------------------------------------
(* Readers are invisible to transactions and schema changes *)

\* A step of a reader or of a sweep is a call of the clock, or nothing.
LEMMA ReaderIsAStep == [RONext]_everything => [RWNext]_allVars
<1> SUFFICES ASSUME [RONext]_everything PROVE [RWNext]_allVars
  BY Zenon
<1>1. TakeNow => RWNext
  BY Zenon DEF TakeNow, RWNext, SystemStep
<1>2. NoNow => UNCHANGED allVars
  BY Zenon DEF NoNow
<1>3. ASSUME NEW r \in Ro, PickReadTimestamp(r) PROVE TakeNow \/ NoNow
  BY Zenon, <1>3 DEF PickReadTimestamp, Create, StrongRead, ExactTimestamp, MinTimestamp,
     ExactStaleness, MaxStaleness, RaiseMinimum, DrawStaleness, StaleTimestamp
<1>4. ASSUME NEW r \in Ro, TakeSchema(r) \/ ReadOnlyRead(r) PROVE TakeNow \/ NoNow
  BY Zenon, <1>4 DEF TakeSchema, ReadOnlyRead, WaitForSafeRead, CheckRetention,
     ValidateSchemaRetained, ReadStorage
<1>5. CASE StartSweep \/ FinishSweep
  BY Zenon, <1>1, <1>2, <1>5 DEF StartSweep, FinishSweep
<1>6. ASSUME NEW d \in Ddl, ApplyRetentionAndExpire(d) PROVE RWNext
  BY Zenon, <1>6 DEF ApplyRetentionAndExpire, RWNext, DdlStep
<1>7. CASE Others
  BY Zenon, <1>7 DEF Others, RWNext, DdlStep
<1>8. CASE UNCHANGED everything
  BY Zenon, <1>8 DEF everything
<1> QED BY Zenon, <1>1, <1>2, <1>3, <1>4, <1>5, <1>6, <1>7, <1>8 DEF RONext

\* Beside read-only transactions and sweeps, read-write transactions and schema
\* changes behave as they do without them: everything proved of them holds here.
THEOREM ReadersAreInvisible == ROSpec => RWSpec
<1>1. ROInit => RWInit
  BY Zenon DEF ROInit
<1> QED BY <1>1, ReaderIsAStep, PTL DEF ROSpec, RWSpec

--------------------------------------------------------------------------------
(* The catalog and its sweeps *)

\* The schemas in effect at times that are frozen stay.
CatalogMovesOn ==
  /\ \A s \in Time : catalog[s] # None => catalog'[s] # None
  /\ \A s, u \in Time : catalog[s] # None /\ catalog[u] = None /\ catalog'[u] # None => s <= u
  /\ \A s \in Time : Frozen(s) => /\ GetSchema(s)' = GetSchema(s)
                                  /\ Created(s)' = Created(s)

\* A new schema is later than all others, and than every frozen time.
LEMMA CatalogStepsMoveOn == ASSUME RWInv, [RWNext]_allVars PROVE CatalogMovesOn
<1>0. /\ catalog \in [Time -> Schema \cup {None}] /\ commitTs \in [Committer -> Time]
      /\ MaxTime \in Nat /\ lastCommit \in Time
  BY Zenon, MaxTimeAssumption DEF RWInv, RWTypeOK, Inv, TypeOK
<1>1. CASE UNCHANGED catalog
  BY Zenon, <1>1 DEF CatalogMovesOn, GetSchema, Created
<1>2. ASSUME NEW d \in Ddl, pc[d] = "flushing",
             catalog' = [catalog EXCEPT ![commitTs[d]] = d]
      PROVE  CatalogMovesOn
  <2>0. d \in Committer /\ commitTs[d] \in Time /\ d # None
    BY Zenon, <1>0, ActorsAssumption DEF Committer
  <2>1. \A s \in Time : catalog'[s] = IF s = commitTs[d] THEN d ELSE catalog[s]
    BY Zenon, <1>0, <1>2, <2>0
  <2>2. \A s \in Time : catalog[s] # None => s <= commitTs[d]
    <3> SUFFICES ASSUME NEW s \in Time, catalog[s] # None PROVE s <= commitTs[d]
      BY Zenon
    <3>1. commitTs[d] > lastCommit
      BY Zenon, <1>2, <2>0 DEF RWInv, Inv, PendingInv
    <3>2. CASE s <= lastCommit
      BY <1>0, <2>0, <3>1, <3>2 DEF Time
    <3>3. CASE s > lastCommit
      <4>1. PICK e \in Ddl : pc[e] = "flushing" /\ commitTs[e] = s
        BY Zenon, <3>3 DEF RWInv, CatalogInv
      <4>2. e = d
        BY Zenon, <1>2, <2>0, <4>1 DEF RWInv, Inv, MutexInv, Committer
      <4> QED BY <2>0, <4>1, <4>2 DEF Time
    <3> QED BY <1>0, <3>2, <3>3 DEF Time
  <2>3. ASSUME NEW s \in Time, Frozen(s)
        PROVE  GetSchema(s)' = GetSchema(s) /\ Created(s)' = Created(s)
    <3>1. commitTs[d] > s
      BY Zenon, <1>2, <2>0, <2>3 DEF RWInv, Inv, PendingInv, Frozen, NoPendingUpTo
    <3>2. \A u \in 0..s : catalog'[u] = catalog[u]
      BY <1>0, <2>0, <2>1, <3>1 DEF Time
    <3>3. GetSchema(s)' = GetSchema(s)
      BY Zenon, <3>2, VisibleAgrees DEF GetSchema
    <3>4. VersionsUpTo(catalog', s) = VersionsUpTo(catalog, s)
      BY Zenon, <3>2 DEF VersionsUpTo
    <3> QED BY Zenon, <3>3, <3>4 DEF Created
  <2>4. /\ \A s \in Time : catalog[s] # None => catalog'[s] # None
        /\ \A s, u \in Time :
             catalog[s] # None /\ catalog[u] = None /\ catalog'[u] # None => s <= u
    BY Zenon, <2>0, <2>1, <2>2
  <2> QED BY Zenon, <2>3, <2>4 DEF CatalogMovesOn
<1> QED BY Zenon, <1>1, <1>2, CatalogSteps

\* The schema in effect at s is the newest up to s.
LEMMA CreatedProperty ==
  ASSUME RWInv, NEW s \in Time
  PROVE  /\ Created(s) \in Time /\ Created(s) <= s /\ catalog[Created(s)] # None
         /\ \A u \in Time : u <= s /\ catalog[u] # None => u <= Created(s)
         /\ GetSchema(s) = catalog[Created(s)]
<1> DEFINE V == VersionsUpTo(catalog, s)
<1>1. V \in SUBSET (0..s) /\ 0 \in V /\ s \in Nat /\ MaxTime \in Nat
  BY SchemaAssumption, MaxTimeAssumption DEF RWInv, CatalogInv, VersionsUpTo, Time
<1>2. \A u \in Time : u <= s /\ catalog[u] # None => u \in V
  BY <1>1 DEF VersionsUpTo, Time
<1>3. Max(V) \in V => catalog[Max(V)] # None
  BY Zenon DEF VersionsUpTo
<1> HIDE DEF V
<1>4. Max(V) \in V /\ \A u \in V : u <= Max(V)
  BY <1>1, MaxProperty, Zenon
<1>5. Created(s) = Max(V)
  BY Zenon DEF Created, V
<1>6. GetSchema(s) = catalog[Max(V)]
  BY Zenon, <1>1 DEF GetSchema, Visible, V
<1>7. Max(V) \in 0..s
  BY Zenon, <1>1, <1>4
<1>8. Max(V) \in Time /\ Max(V) <= s
  BY <1>1, <1>7 DEF Time
<1>9. \A u \in Time : u <= s /\ catalog[u] # None => u <= Max(V)
  BY Zenon, <1>2, <1>4
<1> QED BY <1>3, <1>4, <1>5, <1>6, <1>8, <1>9, Zenon

\* The schema a reader takes at s is the one in effect, or s is in the swept range,
\* or a schema change has removed the one in effect.
LEMMA TakenSchema ==
  ASSUME RWInv, ROTypeOK, SweepInv, NEW s \in Time
  PROVE  /\ GetSchemaShared(s) \in Schema
         /\ GetSchemaShared(s) = GetSchema(s) \/ IsSwept(s) \/ Created(s) \in dropped
<1> DEFINE K == {u \in Kept : u <= s}
           c == Created(s)
<1>1. /\ c \in Time /\ c <= s /\ catalog[c] # None
      /\ \A u \in Time : u <= s /\ catalog[u] # None => u <= c
      /\ GetSchema(s) = catalog[c]
  BY Zenon, CreatedProperty
<1> HIDE DEF c
<1>2. /\ s \in Nat /\ MaxTime \in Nat /\ 0 \in Kept
      /\ catalog \in [Time -> Schema \cup {None}]
      /\ sweptBegin \in Time /\ sweptEnd \in Time
  BY SchemaAssumption, MaxTimeAssumption
     DEF RWInv, RWTypeOK, CatalogInv, ROTypeOK, SweepInv, Kept, Time
<1>3. K \in SUBSET (0..s) /\ 0 \in K
  BY <1>2 DEF Kept, Time
<1>4. GetSchemaShared(s) = catalog[Max(K)]
  BY Zenon DEF GetSchemaShared
<1>5. \A u \in K : u \in Time /\ u <= s /\ catalog[u] # None
  BY Zenon DEF Kept
<1>6. c \notin erased => c \in K
  BY Zenon, <1>1 DEF Kept
<1> HIDE DEF K
<1>7. Max(K) \in K /\ \A u \in K : u <= Max(K)
  BY <1>2, <1>3, MaxProperty, Zenon
<1>8. GetSchemaShared(s) \in Schema
  BY Zenon, <1>2, <1>4, <1>5, <1>7
<1>9. CASE c \notin erased
  <2>1. Max(K) = c
    BY <1>1, <1>2, <1>5, <1>6, <1>7, <1>9 DEF Time
  <2> QED BY Zenon, <1>1, <1>4, <1>8, <2>1
<1>10. CASE c \in erased \ dropped
  <2>1. sweptBegin <= c /\ c < sweptEnd /\ catalog[sweptEnd] # None
    BY Zenon, <1>10 DEF SweepInv
  <2>2. sweptBegin <= s /\ s < sweptEnd
    BY <1>1, <1>2, <2>1 DEF Time
  <2> QED BY Zenon, <1>8, <2>2 DEF IsSwept
<1> QED BY Zenon, <1>8, <1>9, <1>10 DEF c

\* What a call of the clock by a reader or a sweep does.
LEMMA NowFacts ==
  ASSUME RWInv, TakeNow
  PROVE  /\ NowValue \in Time /\ NowValue > lastDispensed /\ NowValue >= systemTime
         /\ lastDispensed' = NowValue
         /\ UNCHANGED <<systemTime, lastCommit, pending, catalog, versions, oldest>>
<1>1. Now /\ TypeOK
  BY Zenon DEF TakeNow, Dispense, RWInv, Inv
<1>2. UNCHANGED <<systemTime, lastCommit, pending, catalog, versions, oldest>>
  BY Zenon DEF TakeNow, Dispense, Now, managerVars, gcVars, ddlVars
<1>3. NowValue >= systemTime
  BY <1>1, MaxTimeAssumption DEF NowValue, TypeOK, Time
<1> QED BY Zenon, <1>1, <1>2, <1>3, NowIsLater

\* The schemas a step leaves in place when nothing is removed.
LEMMA SweepInvFrame ==
  ASSUME RWInv, ROTypeOK, SweepInv, RWTypeOK', MovesOn, CatalogMovesOn, Inv',
         UNCHANGED <<sweepVars, sweepTime>>
  PROVE  SweepInv' /\ UNCHANGED <<erased, dropped, sweptBegin, sweptEnd>>
<1>0. UNCHANGED <<erased, dropped, sweptBegin, sweptEnd, sweepTime>>
  BY Zenon DEF sweepVars
<1>1. /\ erased \subseteq Time /\ sweptBegin \in Time /\ sweptEnd \in Time
      /\ MaxTime \in Nat /\ sweepTime \in Time \cup {None}
      /\ lastDispensed \in Time /\ lastDispensed' \in Time
  BY Zenon, MaxTimeAssumption DEF ROTypeOK, RWInv, Inv, TypeOK
<1>2. /\ \A s \in Time : catalog[s] # None => catalog'[s] # None
      /\ \A s, u \in Time : catalog[s] # None /\ catalog[u] = None /\ catalog'[u] # None => s <= u
      /\ lastDispensed <= lastDispensed'
  BY Zenon DEF CatalogMovesOn, MovesOn
<1>3. \A s \in Kept' \ {0} : sweptEnd <= s
  <2> SUFFICES ASSUME NEW s \in Time, catalog'[s] # None, s \notin erased, s # 0
               PROVE  sweptEnd <= s
    BY Zenon, <1>0 DEF Kept
  <2>1. CASE catalog[s] # None
    BY Zenon, <2>1 DEF SweepInv, Kept
  <2>2. CASE catalog[s] = None
    BY Zenon, <1>1, <1>2, <2>2 DEF SweepInv
  <2> QED BY Zenon, <2>1, <2>2
<1>4. sweepTime # None => sweepTime <= lastDispensed'
  BY <1>1, <1>2 DEF SweepInv, Time
<1> QED BY Zenon, <1>0, <1>1, <1>2, <1>3, <1>4 DEF SweepInv

\* What a removal of expired schemas at t leaves.
LEMMA RemovedProperty ==
  ASSUME RWInv, ROTypeOK, SweepInv, NEW t \in Time
  PROVE  /\ Removed(t) \subseteq Kept \ {0}
         /\ Removed(t) # {} =>
              /\ SweptTo(t) \in Kept
              /\ \A s \in Removed(t) : s < SweptTo(t)
              /\ \A s \in Kept \ {0} : s < SweptTo(t) => s \in Removed(t)
              /\ SweptTo(t) <= t - period
<1> DEFINE K == {s \in Kept : s <= t - period}
<1>1. /\ t \in Int /\ period \in Int /\ MaxTime \in Nat /\ Kept \subseteq Time
  BY MaxTimeAssumption, RetentionAssumption DEF RWInv, RWTypeOK, Time, Kept
<1>2. Removed(t) \subseteq Kept \ {0}
  BY Zenon DEF Removed
<1>3. ASSUME Removed(t) # {}
      PROVE  /\ SweptTo(t) \in Kept
             /\ \A s \in Removed(t) : s < SweptTo(t)
             /\ \A s \in Kept \ {0} : s < SweptTo(t) => s \in Removed(t)
             /\ SweptTo(t) <= t - period
  <2>1. K \in SUBSET (0..MaxTime) /\ K # {}
    BY Zenon, <1>1, <1>3 DEF Removed, Time
  <2>2. SweptTo(t) = Max(K)
    BY Zenon DEF SweptTo
  <2> HIDE DEF K
  <2>3. SweptTo(t) \in K /\ \A u \in K : u <= SweptTo(t)
    BY <1>1, <2>1, <2>2, MaxProperty, Zenon
  <2>4. SweptTo(t) \in Kept /\ SweptTo(t) <= t - period
    BY Zenon, <2>3 DEF K
  <2>5. ASSUME NEW s \in Removed(t) PROVE s < SweptTo(t)
    <3>1. PICK u \in Kept : s < u /\ u <= t - period
      BY Zenon, <2>5 DEF Removed
    <3>2. u <= SweptTo(t)
      BY Zenon, <2>3, <3>1 DEF K
    <3>3. s \in Kept
      BY Zenon, <1>2, <2>5
    <3>4. s \in Int /\ u \in Int /\ SweptTo(t) \in Int
      <4>1. \A v \in Kept : v \in Int
        BY <1>1 DEF Time
      <4> QED BY <2>4, <3>1, <3>3, <4>1, Zenon
    <3> QED BY <3>1, <3>2, <3>4
  <2>6. \A s \in Kept \ {0} : s < SweptTo(t) => s \in Removed(t)
    BY Zenon, <2>4 DEF Removed
  <2> QED BY Zenon, <2>4, <2>5, <2>6
<1> QED BY Zenon, <1>2, <1>3

\* A sweep records what it removes, and it removes what it records.
LEMMA SweepKeepsInv ==
  ASSUME RWInv, ROTypeOK, SweepInv, FinishSweep
  PROVE  SweepInv' /\ sweptBegin' \in Time /\ sweptEnd' \in Time /\ erased' \subseteq Time
<1> DEFINE R == Removed(sweepTime)
           T == SweptTo(sweepTime)
<1>0. /\ sweepTime \in Time /\ erased' = erased \cup R /\ dropped' = dropped
      /\ sweepTime' = None /\ catalog' = catalog
      /\ R = {} => UNCHANGED <<sweptBegin, sweptEnd>>
      /\ R # {} => sweptBegin' = SweptFrom(sweepTime) /\ sweptEnd' = T
  BY Zenon DEF ROTypeOK, FinishSweep, SweepExpiredSchemas, NoNow, allVars, ddlVars
<1>1. /\ R \subseteq Kept \ {0}
      /\ R # {} => /\ T \in Kept
                   /\ \A s \in R : s < T
                   /\ \A s \in Kept \ {0} : s < T => s \in R
  BY Zenon, <1>0, RemovedProperty
<1>2. R # {} => SweptFrom(sweepTime) = IF sweptBegin = sweptEnd THEN Min(R) ELSE sweptBegin
  BY Zenon DEF SweptFrom
<1> HIDE DEF R, T
<1>3. /\ erased \subseteq Time /\ sweptBegin \in Time /\ sweptEnd \in Time /\ MaxTime \in Nat
      /\ Kept \subseteq Time /\ Kept \cap erased = {} /\ \A s \in Kept : catalog[s] # None
  BY Zenon, MaxTimeAssumption DEF ROTypeOK, Kept
<1>4. Kept' = Kept \ R
  BY Zenon, <1>0, <1>3 DEF Kept
<1>5. /\ dropped \subseteq erased
      /\ \A s \in erased : catalog[s] # None /\ s # 0
      /\ \A s \in Kept \ {0} : sweptEnd <= s
      /\ \A s \in erased \ dropped : sweptBegin <= s /\ s < sweptEnd
      /\ sweptBegin <= sweptEnd
      /\ sweptBegin < sweptEnd => sweptBegin # 0
      /\ catalog[sweptBegin] # None /\ catalog[sweptEnd] # None
  BY Zenon DEF SweepInv
<1>6. erased' \subseteq Time /\ \A s \in erased' : catalog'[s] # None /\ s # 0
  BY Zenon, <1>0, <1>1, <1>3, <1>5
<1>7. CASE R = {}
  BY Zenon, <1>0, <1>3, <1>4, <1>5, <1>6, <1>7 DEF SweepInv
<1>8. CASE R # {}
  <2> DEFINE b == SweptFrom(sweepTime)
  <2>0. T \in Time /\ catalog[T] # None /\ sweptBegin' = b /\ sweptEnd' = T
    BY Zenon, <1>0, <1>1, <1>3, <1>8
  <2>1. R \in SUBSET Nat /\ R \subseteq Time
    BY <1>1, <1>3 DEF Time
  <2>2. \A s \in R : sweptEnd <= s /\ s < T /\ catalog[s] # None /\ s # 0
    BY Zenon, <1>1, <1>3, <1>5, <1>8
  <2>3. Min(R) \in R /\ \A s \in R : Min(R) <= s
    BY <1>8, <2>1, MinProperty, Zenon
  <2>4. /\ b \in Time /\ b <= T /\ b # 0 /\ catalog[b] # None
        /\ \A s \in R : b <= s
        /\ \A s \in erased \ dropped : b <= s /\ s < T
    <3>1. CASE sweptBegin = sweptEnd
      <4>1. b = Min(R)
        BY <1>2, <1>8, <3>1
      <4>2. \A s \in erased \ dropped : FALSE
        BY <1>3, <1>5, <3>1 DEF Time
      <4>3. b \in Time /\ b < T /\ b # 0 /\ catalog[b] # None /\ \A s \in R : b <= s
        BY Zenon, <2>1, <2>2, <2>3, <4>1
      <4>4. b <= T
        BY <2>0, <4>3 DEF Time
      <4> QED BY <4>2, <4>3, <4>4, Zenon
    <3>2. CASE sweptBegin # sweptEnd
      <4>1. b = sweptBegin /\ sweptBegin < sweptEnd
        BY <1>2, <1>3, <1>5, <1>8, <3>2 DEF Time
      <4>2. \A s \in R : b <= s
        BY <1>3, <2>1, <2>2, <4>1 DEF Time
      <4>3. sweptEnd < T
        <5>1. PICK s \in R : sweptEnd <= s /\ s < T
          BY Zenon, <1>8, <2>2
        <5> QED BY <1>3, <2>0, <2>1, <5>1 DEF Time
      <4>4. \A s \in erased \ dropped : b <= s /\ s < T
        BY <1>3, <1>5, <2>0, <4>1, <4>3 DEF Time
      <4> QED BY <1>3, <1>5, <2>0, <4>1, <4>2, <4>3, <4>4 DEF Time
    <3> QED BY Zenon, <3>1, <3>2
  <2> HIDE DEF b
  <2>5. \A s \in Kept' \ {0} : T <= s
    BY <1>1, <1>3, <1>4, <1>8, <2>0 DEF Time
  <2>6. \A s \in erased' \ dropped' : b <= s /\ s < T
    BY <1>0, <2>2, <2>4
  <2>7. dropped' \subseteq erased'
    BY <1>0, <1>5
  <2> QED BY Zenon, <1>0, <1>6, <2>0, <2>4, <2>5, <2>6, <2>7 DEF SweepInv
<1> QED BY Zenon, <1>7, <1>8

\* A schema change that removes schemas leaves the swept range.
LEMMA ExpireKeepsInv ==
  ASSUME RWInv, ROTypeOK, SweepInv, MovesOn, Inv', NEW d \in Ddl, ApplyRetentionAndExpire(d)
  PROVE  SweepInv' /\ erased' \subseteq Time /\ dropped' \subseteq Time
                   /\ UNCHANGED <<sweptBegin, sweptEnd>>
<1> DEFINE R == Removed(commitTs[d])
<1>0. /\ erased' = erased \cup R /\ dropped' = dropped \cup R
      /\ UNCHANGED <<sweptBegin, sweptEnd, sweepTime, catalog>>
  BY Zenon DEF ApplyRetentionAndExpire, RemoveExpiredSchemas, ApplyRetention, ddlVars
<1>1. R \subseteq Kept \ {0}
  BY Zenon DEF Removed
<1> HIDE DEF R
<1>2. /\ erased \subseteq Time /\ dropped \subseteq Time /\ MaxTime \in Nat
      /\ Kept \subseteq Time /\ \A s \in Kept : catalog[s] # None
      /\ lastDispensed <= lastDispensed' /\ lastDispensed \in Time /\ lastDispensed' \in Time
      /\ sweepTime \in Time \cup {None}
  BY Zenon, MaxTimeAssumption DEF ROTypeOK, Kept, MovesOn, Inv, RWInv, TypeOK
<1>3. Kept' \subseteq Kept
  BY Zenon, <1>0 DEF Kept
<1>4. sweepTime # None => sweepTime <= lastDispensed'
  BY <1>2 DEF SweepInv, Time
<1>5. erased' \ dropped' \subseteq erased \ dropped
  BY Zenon, <1>0
<1> QED BY Zenon, <1>0, <1>1, <1>2, <1>3, <1>4, <1>5 DEF SweepInv

\* Readers leave the catalog and its sweeps alone.
LEMMA ReaderFrames ==
  ASSUME NEW r \in Ro, PickReadTimestamp(r) \/ TakeSchema(r) \/ ReadOnlyRead(r)
  PROVE  UNCHANGED <<sweepVars, sweepTime>>
<1>1. CASE PickReadTimestamp(r)
  BY Zenon, <1>1 DEF PickReadTimestamp, Create, StrongRead, ExactTimestamp, MinTimestamp,
     ExactStaleness, MaxStaleness, RaiseMinimum, DrawStaleness, StaleTimestamp
<1>2. CASE TakeSchema(r)
  BY Zenon, <1>2 DEF TakeSchema, WaitForSafeRead
<1>3. CASE ReadOnlyRead(r)
  BY Zenon, <1>3 DEF ReadOnlyRead, WaitForSafeRead, CheckRetention, ValidateSchemaRetained, ReadStorage
<1> QED BY Zenon, <1>1, <1>2, <1>3

SweepTypeOK ==
  /\ erased \subseteq Time /\ dropped \subseteq Time
  /\ sweptBegin \in Time /\ sweptEnd \in Time
  /\ sweepTime \in Time \cup {None}

\* The catalog's part of the invariant is kept by every step.
LEMMA SweepStep ==
  ASSUME RWInv, ROTypeOK, SweepInv, RWInv', MovesOn, CatalogMovesOn, [RONext]_everything
  PROVE  SweepInv' /\ SweepTypeOK' /\ dropped \subseteq dropped'
<1>0. SweepTypeOK /\ Inv' /\ RWTypeOK'
  BY Zenon DEF ROTypeOK, SweepTypeOK, RWInv
<1>1. CASE UNCHANGED <<sweepVars, sweepTime>>
  <2>1. SweepInv' /\ UNCHANGED <<erased, dropped, sweptBegin, sweptEnd>>
    BY Zenon, <1>0, <1>1, SweepInvFrame
  <2> QED BY Zenon, <1>0, <1>1, <2>1 DEF SweepTypeOK
<1>2. ASSUME NEW r \in Ro, PickReadTimestamp(r) \/ TakeSchema(r) \/ ReadOnlyRead(r)
      PROVE  UNCHANGED <<sweepVars, sweepTime>>
  BY Zenon, <1>2, ReaderFrames
<1>3. CASE StartSweep
  <2>1. /\ NowValue \in Time /\ lastDispensed' = NowValue /\ catalog' = catalog
    BY Zenon, <1>3, NowFacts DEF StartSweep
  <2>2. UNCHANGED <<erased, dropped, sweptBegin, sweptEnd>> /\ sweepTime' = NowValue
    BY Zenon, <1>3 DEF StartSweep, sweepVars
  <2>3. NowValue <= NowValue /\ Kept' = Kept
    BY <2>1, <2>2, MaxTimeAssumption DEF Kept, Time
  <2> QED BY Zenon, <1>0, <2>1, <2>2, <2>3 DEF SweepTypeOK, SweepInv
<1>4. CASE FinishSweep
  <2>1. dropped' = dropped /\ sweepTime' = None
    BY Zenon, <1>4 DEF FinishSweep, SweepExpiredSchemas
  <2> QED BY Zenon, <1>0, <1>4, <2>1, SweepKeepsInv DEF SweepTypeOK
<1>5. ASSUME NEW d \in Ddl, ApplyRetentionAndExpire(d)
      PROVE  SweepInv' /\ SweepTypeOK' /\ dropped \subseteq dropped'
  <2>1. sweepTime' = sweepTime /\ dropped \subseteq dropped'
    BY Zenon, <1>5 DEF ApplyRetentionAndExpire, RemoveExpiredSchemas
  <2> QED BY Zenon, <1>0, <1>5, <2>1, ExpireKeepsInv DEF SweepTypeOK
<1>6. CASE Others \/ UNCHANGED everything
  <2>1. UNCHANGED <<sweepVars, sweepTime>>
    BY Zenon, <1>6 DEF Others, everything, roVars
  <2> QED BY Zenon, <1>1, <2>1
<1> QED BY <1>1, <1>2, <1>3, <1>4, <1>5, <1>6 DEF RONext

--------------------------------------------------------------------------------
(* What a step does to a reader *)

\* A reader that is choosing its timestamp goes on choosing, or has chosen.
Picks(x, y) ==
  /\ x.pc \in Picking
  /\ y.schema = x.schema /\ y.safeAt = x.safeAt /\ y.seen = x.seen /\ y.swept = x.swept

\* A reader with its timestamp goes on in one of four ways: it waits or finds
\* that it may go on, ...
Waits(x, y) ==
  y.schema = x.schema /\ y.safeAt = x.safeAt /\ y.seen = x.seen /\ y.swept = x.swept

\* ... it finds its timestamp safe before it has a schema, ...
IsSafe(x, y) ==
  /\ NoPendingUpTo(x.ts)
  /\ y.safeAt = lastDispensed
  /\ x.schema = None
  /\ y.schema = x.schema /\ y.seen = x.seen /\ y.swept = x.swept

\* ... it takes its schema, ...
Takes(x, y) ==
  /\ x.schema = None
  /\ y.schema = GetSchemaShared(x.ts) /\ y.swept = IsSwept(x.ts)
  /\ y.safeAt = x.safeAt /\ y.seen = x.seen

\* ... or it reads a row.
Reads(x, y) ==
  /\ x.pc = "reading"
  /\ \E k \in Key : y.seen = [x.seen EXCEPT ![k] = StoredAt(k, x.ts)]
  /\ y.schema = x.schema /\ y.safeAt = x.safeAt /\ y.swept = x.swept

Goes(x, y) ==
  /\ x.pc \notin Picking /\ y.pc \in RoPhases \ Picking
  /\ y.ts = x.ts /\ y.floor = x.floor /\ y.period = x.period /\ y.pick = x.pick
  /\ Waits(x, y) \/ IsSafe(x, y) \/ Takes(x, y) \/ Reads(x, y)

\* PickReadTimestamp only picks.
LEMMA PickingSteps ==
  ASSUME ROTypeOK, NEW r \in Ro, PickReadTimestamp(r)
  PROVE  /\ Picks(ro[r], ro'[r])
         /\ \A q \in Ro \ {r} : ro'[q] = ro[q]
<1>0. ro \in [Ro -> RoState]
  BY Zenon DEF ROTypeOK
<1>1. CASE Create(r) \/ RaiseMinimum(r)
  BY <1>0, <1>1 DEF Create, RaiseMinimum, Picks, Picking, RoState
<1>2. CASE DrawStaleness(r) \/ StaleTimestamp(r)
  BY <1>0, <1>2 DEF DrawStaleness, StaleTimestamp, Picks, Picking, RoState
<1>3. CASE StrongRead(r)
  BY <1>0, <1>3 DEF StrongRead, Asks, Open, Picks, Picking, RoState
<1>4. ASSUME NEW t \in Time, ExactTimestamp(r, t) \/ MinTimestamp(r, t)
      PROVE  Picks(ro[r], ro'[r]) /\ \A q \in Ro \ {r} : ro'[q] = ro[q]
  BY <1>0, <1>4 DEF ExactTimestamp, MinTimestamp, Asks, Open, Choose, Picks, Picking, RoState
<1>5. ASSUME NEW d \in Time, ExactStaleness(r, d) \/ MaxStaleness(r, d)
      PROVE  Picks(ro[r], ro'[r]) /\ \A q \in Ro \ {r} : ro'[q] = ro[q]
  BY <1>0, <1>5 DEF ExactStaleness, MaxStaleness, Asks, Open, Choose, Picks, Picking, RoState
<1> QED BY Zenon, <1>1, <1>2, <1>3, <1>4, <1>5 DEF PickReadTimestamp

\* One call of WaitForSafeRead.
LEMMA WaitingSteps ==
  ASSUME ROTypeOK, NEW r \in Ro, NEW from \in RoPhases \ Picking,
         NEW due \in RoPhases \ Picking, NEW to \in RoPhases \ Picking,
         WaitForSafeRead(r, from, due, to)
  PROVE  Goes(ro[r], ro'[r]) /\ \A q \in Ro \ {r} : ro'[q] = ro[q]
<1>0. ro \in [Ro -> RoState]
  BY Zenon DEF ROTypeOK
<1>1. CASE Move(r, from, due)
  BY <1>0, <1>1 DEF Move, Goes, Waits, RoState
<1>2. CASE /\ ro[r].pc = due
           /\ NoPendingUpTo(ro[r].ts)
           /\ ro' = [ro EXCEPT ![r].pc = to,
                               ![r].safeAt = IF ro[r].schema = None THEN lastDispensed ELSE @]
  <2>1. CASE ro[r].schema = None
    BY <1>0, <1>2, <2>1 DEF Goes, IsSafe, RoState
  <2>2. CASE ro[r].schema # None
    BY <1>0, <1>2, <2>2 DEF Goes, Waits, RoState
  <2> QED BY Zenon, <2>1, <2>2
<1> QED BY Zenon, <1>1, <1>2 DEF WaitForSafeRead

\* schema() and Read go on.
LEMMA ReadingSteps ==
  ASSUME ROTypeOK, NEW r \in Ro, TakeSchema(r) \/ ReadOnlyRead(r)
  PROVE  Goes(ro[r], ro'[r]) /\ \A q \in Ro \ {r} : ro'[q] = ro[q]
<1> DEFINE Done == Goes(ro[r], ro'[r]) /\ \A q \in Ro \ {r} : ro'[q] = ro[q]
<1>0. ro \in [Ro -> RoState]
  BY Zenon DEF ROTypeOK
<1>1. \A p \in {"open", "schema due", "schema", "read due", "check", "checked",
                "checked due", "retained", "reading"} : p \in RoPhases \ Picking
  BY Zenon DEF RoPhases, Picking
<1>2. CASE WaitForSafeRead(r, "open", "schema due", "schema")
  BY Zenon, <1>1, <1>2, WaitingSteps
<1>3. CASE WaitForSafeRead(r, "open", "read due", "check")
  BY Zenon, <1>1, <1>3, WaitingSteps
<1>4. CASE WaitForSafeRead(r, "checked", "checked due", "retained")
  BY Zenon, <1>1, <1>4, WaitingSteps
<1>5. ASSUME NEW from \in {"schema", "retained"}, NEW ok \in {"open", "reading"},
             ro[r].pc = from, SchemaShared(r, ok, "open")
      PROVE  Done
  <2>1. from \in RoPhases \ Picking /\ ok \in RoPhases \ Picking /\ "open" \in RoPhases \ Picking
    BY Zenon, <1>1
  <2>2. CASE ro[r].schema # None
    <3>1. ro' = [ro EXCEPT ![r] = [ro[r] EXCEPT !.pc = IF ro[r].swept THEN "open" ELSE ok]]
      BY Zenon, <1>5, <2>2 DEF SchemaShared
    <3> QED BY <1>0, <1>5, <2>1, <3>1 DEF Goes, Waits, RoState
  <2>3. CASE ro[r].schema = None
    <3> DEFINE taken == [ro[r] EXCEPT !.schema = GetSchemaShared(ro[r].ts),
                                      !.swept = IsSwept(ro[r].ts)]
    <3>1. ro' = [ro EXCEPT ![r] = [taken EXCEPT !.pc = IF taken.swept THEN "open" ELSE ok]]
      BY Zenon, <1>5, <2>3 DEF SchemaShared
    <3> QED BY <1>0, <1>5, <2>1, <2>3, <3>1 DEF Goes, Takes, RoState
  <2> QED BY Zenon, <2>2, <2>3
<1>6. CASE CheckRetention(r)
  <2>1. PICK to \in {"open", "checked"} : ro' = [ro EXCEPT ![r].pc = to]
    BY Zenon, <1>6 DEF CheckRetention
  <2>2. ro[r].pc = "check"
    BY Zenon, <1>6 DEF CheckRetention
  <2> QED BY Zenon, <1>0, <1>1, <2>1, <2>2 DEF Goes, Waits, RoState
<1>7. ASSUME NEW k \in Key, ReadStorage(r, k) PROVE Done
  <2>1. PICK to \in {"reading", "open"} :
          ro' = [ro EXCEPT ![r].pc = to, ![r].seen[k] = StoredAt(k, ro[r].ts)]
    BY Zenon, <1>7 DEF ReadStorage
  <2>2. ro[r].pc = "reading"
    BY Zenon, <1>7 DEF ReadStorage
  <2> QED BY Zenon, <1>0, <1>1, <2>1, <2>2 DEF Goes, Reads, RoState
<1> QED BY Zenon, <1>2, <1>3, <1>4, <1>5, <1>6, <1>7
        DEF TakeSchema, ReadOnlyRead, ValidateSchemaRetained

\* A step of a reader changes that reader's record only.
LEMMA ReaderShape ==
  ASSUME ROTypeOK, NEW r \in Ro, PickReadTimestamp(r) \/ TakeSchema(r) \/ ReadOnlyRead(r)
  PROVE  ro' = [q \in Ro |-> ro'[q]]
<1>0. \A y : [ro EXCEPT ![r] = y] = [q \in Ro |-> [ro EXCEPT ![r] = y][q]]
  BY Zenon DEF ROTypeOK
<1>1. CASE PickReadTimestamp(r)
  BY Zenon, <1>0, <1>1 DEF PickReadTimestamp, Create, StrongRead, ExactTimestamp, MinTimestamp,
     ExactStaleness, MaxStaleness, RaiseMinimum, DrawStaleness, StaleTimestamp, Open, Choose
<1>2. ASSUME NEW from, NEW due, NEW to, WaitForSafeRead(r, from, due, to)
      PROVE  ro' = [q \in Ro |-> ro'[q]]
  BY Zenon, <1>0, <1>2 DEF WaitForSafeRead, Move
<1>3. ASSUME NEW ok, NEW swept, SchemaShared(r, ok, swept) PROVE ro' = [q \in Ro |-> ro'[q]]
  BY Zenon, <1>0, <1>3 DEF SchemaShared
<1>4. CASE TakeSchema(r)
  BY Zenon, <1>2, <1>3, <1>4 DEF TakeSchema
<1>5. CASE CheckRetention(r) \/ \E k \in Key : ReadStorage(r, k)
  BY Zenon, <1>0, <1>5 DEF CheckRetention, ReadStorage
<1>6. CASE ReadOnlyRead(r)
  BY Zenon, <1>2, <1>3, <1>5, <1>6 DEF ReadOnlyRead, ValidateSchemaRetained
<1> QED BY Zenon, <1>1, <1>4, <1>6

\* Every step leaves a reader, or it picks its timestamp, or it goes on.
LEMMA ReaderSteps ==
  ASSUME ROTypeOK, [RONext]_everything, NEW r \in Ro
  PROVE  \/ ro'[r] = ro[r]
         \/ PickReadTimestamp(r) /\ Picks(ro[r], ro'[r])
         \/ (TakeSchema(r) \/ ReadOnlyRead(r)) /\ Goes(ro[r], ro'[r])
<1>1. CASE StartSweep \/ FinishSweep \/ Others \/ UNCHANGED everything
  BY Zenon, <1>1 DEF StartSweep, FinishSweep, Others, everything, roVars
<1>2. CASE \E d \in Ddl : ApplyRetentionAndExpire(d)
  BY Zenon, <1>2 DEF ApplyRetentionAndExpire
<1>3. ASSUME NEW q \in Ro, PickReadTimestamp(q)
      PROVE  ro'[r] = ro[r] \/ (PickReadTimestamp(r) /\ Picks(ro[r], ro'[r]))
  BY <1>3, PickingSteps, Zenon
<1>4. ASSUME NEW q \in Ro, TakeSchema(q) \/ ReadOnlyRead(q)
      PROVE  \/ ro'[r] = ro[r]
             \/ (TakeSchema(r) \/ ReadOnlyRead(r)) /\ Goes(ro[r], ro'[r])
  BY <1>4, ReadingSteps, Zenon
<1> QED BY <1>1, <1>2, <1>3, <1>4, Zenon DEF RONext

--------------------------------------------------------------------------------
(* What a reader has seen, and its schema *)

\* What the step keeps of a frozen time t.
StaysFrozen(t) ==
  /\ t <= lastDispensed' /\ \A c \in pending' : c > t
  /\ \A k \in Key : /\ Visible(versions'[k], t) = Visible(versions[k], t)
                    /\ t < oldest[k] => t < oldest'[k]
  /\ Visible(catalog', t) = Visible(catalog, t)
  /\ Max(VersionsUpTo(catalog', t)) = Max(VersionsUpTo(catalog, t))

\* No step changes anything at a frozen time.
LEMMA FrozenStays ==
  ASSUME RWInv, Inv', MovesOn, CatalogMovesOn, NEW t \in Time, Frozen(t)
  PROVE  StaysFrozen(t)
<1>1. t <= lastDispensed' /\ \A c \in pending' : c > t
  BY Zenon DEF MovesOn
<1>2. \A k \in Key : Visible(versions'[k], t) = Visible(versions[k], t)
  BY Zenon DEF MovesOn, ValueAt
<1>3. \A k \in Key : t < oldest[k] => t < oldest'[k]
  <2>1. \A k \in Key : oldest[k] \in Time /\ oldest'[k] \in Time /\ oldest[k] <= oldest'[k]
    BY Zenon DEF MovesOn, RWInv, Inv, TypeOK
  <2> QED BY <2>1, MaxTimeAssumption DEF Time
<1>4. /\ Visible(catalog', t) = Visible(catalog, t)
      /\ Max(VersionsUpTo(catalog', t)) = Max(VersionsUpTo(catalog, t))
  BY Zenon DEF CatalogMovesOn, GetSchema, Created
<1> QED BY Zenon, <1>1, <1>2, <1>3, <1>4 DEF StaysFrozen

\* What was seen stays what there was.
LEMMA SeenStep ==
  ASSUME RWInv, Inv', ROTypeOK, MovesOn, CatalogMovesOn,
         NEW r \in Ro, SeenInv(ro[r]), WaitInv(ro[r]),
         ro'[r] = ro[r] \/ Picks(ro[r], ro'[r]) \/ Goes(ro[r], ro'[r])
  PROVE  SeenInv(ro[r])'
<1>0. ro[r].ts \in Time /\ ro[r].seen \in [Key -> Value \cup {None}]
  BY Zenon DEF ROTypeOK, RoState
<1>1. Steady' <=> Steady
  BY Zenon DEF Steady, FutureBounds
<1> SUFFICES ASSUME NEW k \in Key, ro'[r].seen[k] # None
             PROVE  /\ ro'[r].pc \notin Picking
                    /\ Steady =>
                         /\ ro'[r].ts <= lastDispensed'
                         /\ \A c \in pending' : c > ro'[r].ts
                         /\ \/ ro'[r].seen[k] = Visible(versions'[k], ro'[r].ts)
                            \/ ro'[r].seen[k] = Absent /\ ro'[r].ts < oldest'[k]
  BY <1>1, Zenon DEF SeenInv, Frozen, NoPendingUpTo, ValueAt, Picking
<1>2. ro[r].seen[k] # None =>
        /\ ro[r].pc \notin Picking
        /\ Steady => /\ StaysFrozen(ro[r].ts)
                     /\ \/ ro[r].seen[k] = Visible(versions[k], ro[r].ts)
                        \/ ro[r].seen[k] = Absent /\ ro[r].ts < oldest[k]
  BY <1>0, FrozenStays, Zenon DEF SeenInv, ValueAt
<1>3. ASSUME ro'[r].seen[k] = ro[r].seen[k], ro'[r].ts = ro[r].ts, ro'[r].pc \notin Picking
      PROVE  /\ ro'[r].pc \notin Picking
             /\ Steady =>
                  /\ ro'[r].ts <= lastDispensed'
                  /\ \A c \in pending' : c > ro'[r].ts
                  /\ \/ ro'[r].seen[k] = Visible(versions'[k], ro'[r].ts)
                     \/ ro'[r].seen[k] = Absent /\ ro'[r].ts < oldest'[k]
  BY <1>2, <1>3, Zenon DEF StaysFrozen
<1>4. CASE ro'[r] = ro[r] \/ Picks(ro[r], ro'[r])
  <2>1. ro'[r].seen = ro[r].seen
    BY Zenon, <1>4 DEF Picks
  <2>2. ro[r].pc \notin Picking
    BY Zenon, <1>2, <2>1
  <2>3. ro'[r] = ro[r]
    BY Zenon, <1>4, <2>2 DEF Picks
  <2> QED BY Zenon, <1>3, <2>2, <2>3
<1>5. CASE Goes(ro[r], ro'[r]) /\ ro'[r].seen[k] = ro[r].seen[k]
  BY <1>3, <1>5, Zenon DEF Goes
<1>6. CASE Goes(ro[r], ro'[r]) /\ ro'[r].seen[k] # ro[r].seen[k]
  <2>1. Reads(ro[r], ro'[r]) /\ ro'[r].ts = ro[r].ts /\ ro'[r].pc \notin Picking
    BY <1>6, Zenon DEF Goes, Waits, IsSafe, Takes
  <2>2. ro[r].pc = "reading" /\ ro'[r].seen[k] = StoredAt(k, ro[r].ts)
    BY Zenon, <1>0, <1>6, <2>1 DEF Reads
  <2>3. Steady => StaysFrozen(ro[r].ts)
    BY Zenon, <1>0, <2>2, FrozenStays DEF WaitInv
  <2>4. \/ ro'[r].seen[k] = Absent /\ ro[r].ts < oldest[k]
        \/ ro'[r].seen[k] = Visible(versions[k], ro[r].ts)
    BY Zenon, <2>2 DEF StoredAt, ValueAt
  <2> QED BY <2>1, <2>3, <2>4, Zenon DEF StaysFrozen
<1> QED BY Zenon, <1>4, <1>5, <1>6

\* What is later than a time is positive.
LEMMA LaterIsPositive ==
  ASSUME NEW a \in Time, NEW S \in SUBSET Time, \A c \in S : c > a
  PROVE  \A c \in S : c > 0
BY MaxTimeAssumption DEF Time

\* The schema taken stays the one in effect.
LEMMA SchemaStep ==
  ASSUME RWInv, Inv', ROTypeOK, SweepInv, MovesOn, CatalogMovesOn, dropped \subseteq dropped',
         NEW r \in Ro, ro'[r] \in RoState, SchemaInv(ro[r]),
         ro'[r] = ro[r] \/ Picks(ro[r], ro'[r]) \/ Goes(ro[r], ro'[r])
  PROVE  SchemaInv(ro[r])'
<1> DEFINE x == ro[r]
           y == ro'[r]
           InEffect ==
             /\ y.ts <= lastDispensed' /\ \A c \in pending' : c > y.ts
             /\ \/ y.schema \in {None, Visible(catalog', y.ts)}
                \/ y.swept
                \/ Max(VersionsUpTo(catalog', y.ts)) \in dropped'
<1>0. /\ x.ts \in Time /\ x.safeAt \in Time /\ y.ts \in Time /\ y.safeAt \in Time
      /\ lastDispensed \in Time /\ lastDispensed' \in Time /\ lastCommit' \in Time
      /\ pending' \in SUBSET Time /\ MaxTime \in Nat
  BY Zenon, MaxTimeAssumption DEF ROTypeOK, RoState, RWInv, Inv, TypeOK
<1>1. SUFFICES /\ y.pc \in Picking => y.schema = None /\ y.safeAt = 0
               /\ y.pc \notin Picking /\ y.ts <= y.safeAt => InEffect
  BY Zenon DEF SchemaInv, Frozen, NoPendingUpTo, GetSchema, Created, Picking
<1>2. /\ x.pc \in Picking => x.schema = None /\ x.safeAt = 0
      /\ x.pc \notin Picking /\ x.ts <= x.safeAt =>
           /\ Frozen(x.ts)
           /\ \/ x.schema \in {None, Visible(catalog, x.ts)}
              \/ x.swept
              \/ Max(VersionsUpTo(catalog, x.ts)) \in dropped
  BY Zenon DEF SchemaInv, GetSchema, Created
<1>3. ASSUME Frozen(x.ts), y.ts = x.ts,
             \/ y.schema \in {None, Visible(catalog, x.ts)}
             \/ y.swept
             \/ Max(VersionsUpTo(catalog, x.ts)) \in dropped
      PROVE  InEffect
  <2>1. StaysFrozen(x.ts)
    BY Zenon, <1>0, <1>3, FrozenStays
  <2> QED BY <1>3, <2>1, Zenon DEF StaysFrozen
<1> HIDE DEF InEffect, x, y
<1>4. CASE y = x
  BY <1>2, <1>3, <1>4, Zenon
<1>5. CASE Picks(x, y)
  <2>1. y.schema = None /\ y.safeAt = 0
    BY Zenon, <1>2, <1>5 DEF Picks
  <2>2. ASSUME y.ts <= y.safeAt PROVE InEffect
    <3>1. y.ts = 0
      BY <1>0, <2>1, <2>2 DEF Time
    <3>2. \A c \in pending' : c > 0
      <4>1. \A c \in pending' : c > lastCommit'
        BY Zenon DEF Inv, PendingInv
      <4> QED BY Zenon, <1>0, <4>1, LaterIsPositive
    <3>3. 0 <= lastDispensed'
      BY <1>0 DEF Time
    <3> QED BY Zenon, <2>1, <3>1, <3>2, <3>3 DEF InEffect
  <2> QED BY Zenon, <2>1, <2>2
<1>6. CASE Goes(x, y)
  <2>1. x.pc \notin Picking /\ y.pc \notin Picking /\ y.ts = x.ts
    BY <1>6, Zenon DEF Goes
  <2>2. CASE Waits(x, y) \/ Reads(x, y)
    <3>1. y.schema = x.schema /\ y.swept = x.swept /\ y.safeAt = x.safeAt
      BY Zenon, <2>2 DEF Waits, Reads
    <3> QED BY <1>2, <1>3, <2>1, <3>1, Zenon
  <2>3. CASE IsSafe(x, y)
    <3>1. y.schema = None /\ y.safeAt = lastDispensed /\ NoPendingUpTo(x.ts)
      BY Zenon, <2>3 DEF IsSafe
    <3>2. y.ts <= y.safeAt => Frozen(x.ts)
      BY Zenon, <2>1, <3>1 DEF Frozen
    <3> QED BY <1>3, <2>1, <3>1, <3>2, Zenon
  <2>4. CASE Takes(x, y)
    <3>1. y.schema = GetSchemaShared(x.ts) /\ y.swept = IsSwept(x.ts) /\ y.safeAt = x.safeAt
      BY Zenon, <2>4 DEF Takes
    <3>2. y.schema = Visible(catalog, x.ts) \/ y.swept \/ Max(VersionsUpTo(catalog, x.ts)) \in dropped
      BY <1>0, <3>1, TakenSchema, Zenon DEF GetSchema, Created
    <3> QED BY <1>2, <1>3, <2>1, <3>1, <3>2, Zenon
  <2> QED BY Zenon, <1>6, <2>2, <2>3, <2>4 DEF Goes
<1> QED BY Zenon, <1>4, <1>5, <1>6 DEF x, y

--------------------------------------------------------------------------------
(* The read timestamp *)

\* The state of reader r is as it should be after the step.
Well(r) == ro'[r] \in RoState /\ PickInv(ro[r])' /\ WaitInv(ro[r])'

\* The larger of two times.
LEMMA MaxOfTwo ==
  ASSUME NEW a \in Nat, NEW b \in Nat
  PROVE  /\ Max({a, b}) \in Nat /\ a <= Max({a, b}) /\ b <= Max({a, b})
         /\ Max({a, b}) = a \/ Max({a, b}) = b
<1> DEFINE S == {a, b}
<1>1. S \in SUBSET (0..(a + b)) /\ S # {} /\ a + b \in Nat /\ a \in S /\ b \in S
  OBVIOUS
<1>2. \A s \in S : s = a \/ s = b
  BY Zenon
<1> HIDE DEF S
<1>3. Max(S) \in S /\ \A s \in S : s <= Max(S)
  BY <1>1, MaxProperty, Zenon
<1>4. Max(S) = a \/ Max(S) = b
  BY <1>2, <1>3, Zenon
<1> QED BY Zenon, <1>1, <1>3, <1>4 DEF S

\* A reader with a timestamp y.ts that meets its bound, and that the clock has
\* handed out unless the bound may ask for the future.
LEMMA Opened ==
  ASSUME NEW r \in Ro, ro'[r] \in RoState, ro'[r].pc = "open",
         ro'[r].floor <= ro'[r].ts,
         Bounds \cap FutureBounds = {} => ro'[r].ts <= lastDispensed'
  PROVE  Well(r)
<1>1. PickInv(ro[r])'
  BY Zenon DEF PickInv, Picking
<1>2. WaitInv(ro[r])'
  BY Zenon DEF WaitInv, Picking, FutureBounds
<1> QED BY Zenon, <1>1, <1>2 DEF Well

\* A reader that has no timestamp yet.
LEMMA StillPicking ==
  ASSUME NEW r \in Ro, ro'[r] \in RoState, ro'[r].pc \in Picking, PickInv(ro[r])'
  PROVE  Well(r)
<1>1. WaitInv(ro[r])'
  BY Zenon DEF WaitInv, Picking, FutureBounds
<1> QED BY Zenon, <1>1 DEF Well

\* Each way of picking a timestamp meets the bound.
LEMMA PickedWell ==
  ASSUME RWInv, ROTypeOK, NEW r \in Ro, PickInv(ro[r]), PickReadTimestamp(r)
  PROVE  Well(r)
<1>0. /\ ro \in [Ro -> RoState] /\ ro[r] \in RoState /\ MaxTime \in Nat
      /\ lastDispensed \in Time /\ lastCommit \in Time /\ lastCommit <= lastDispensed
      /\ period \in Nat
  BY Zenon, MaxTimeAssumption, RetentionAssumption
     DEF ROTypeOK, RWInv, RWTypeOK, Inv, TypeOK, ClockInv
<1>1. ASSUME TakeNow
      PROVE  /\ NowValue \in Nat /\ NowValue \in Time /\ NowValue > lastDispensed
             /\ lastDispensed' = NowValue /\ lastCommit' = lastCommit
  BY <1>1, NowFacts, MaxTimeAssumption DEF Time
<1>2. ASSUME NoNow PROVE lastCommit' = lastCommit /\ lastDispensed' = lastDispensed
  BY Zenon, <1>2 DEF NoNow, allVars, lmVars, clockVars, managerVars
<1>3. ASSUME NEW t \in Time, NEW b \in Nat, Open(r, t, b)
      PROVE  /\ ro'[r] \in RoState /\ ro'[r].pc = "open"
             /\ ro'[r].ts = t /\ ro'[r].floor = b
  BY Zenon, <1>0, <1>3 DEF Open, RoState, RoPhases
<1>4. ASSUME NEW t \in Time, NEW b \in Nat, Choose(r, t, b)
      PROVE  /\ ro'[r] \in RoState /\ ro'[r].pc = "bounded" /\ ro'[r].pc \in Picking
             /\ ro'[r].pick = t /\ ro'[r].floor = b
  BY Zenon, <1>0, <1>4 DEF Choose, RoState, RoPhases, Picking
<1>5. ASSUME NEW t \in Time, Choose(r, t, Max({t, lastCommit + 1})), lastCommit' = lastCommit
      PROVE  Well(r)
  <2>1. t \in Nat /\ lastCommit + 1 \in Nat
    BY <1>0 DEF Time
  <2>2. /\ Max({t, lastCommit + 1}) \in Nat
        /\ Max({t, lastCommit + 1}) = t \/ Max({t, lastCommit + 1}) = lastCommit + 1
    BY Zenon, <2>1, MaxOfTwo
  <2>3. /\ ro'[r] \in RoState /\ ro'[r].pc = "bounded" /\ ro'[r].pc \in Picking
        /\ ro'[r].pick = t /\ ro'[r].floor = Max({t, lastCommit + 1})
    BY Zenon, <1>4, <1>5, <2>2
  <2>4. ro'[r].floor <= ro'[r].pick \/ ro'[r].floor <= lastCommit' + 1
    BY <1>5, <2>1, <2>2, <2>3
  <2>5. PickInv(ro[r])'
    BY Zenon, <2>3, <2>4 DEF PickInv
  <2> QED BY Zenon, <2>3, <2>5, StillPicking
<1>6. CASE Create(r)
  <2>1. ro'[r] \in RoState /\ ro'[r].pc = "created"
    BY Zenon, <1>0, <1>6 DEF Create, RoState, RoPhases, Picking
  <2>2. PickInv(ro[r])' /\ ro'[r].pc \in Picking
    BY Zenon, <2>1 DEF PickInv, Picking
  <2> QED BY Zenon, <2>1, <2>2, StillPicking
<1>7. CASE StrongRead(r)
  <2>1. TakeNow /\ Open(r, NowValue, lastCommit + 1)
    BY Zenon, <1>7 DEF StrongRead
  <2>2. lastCommit + 1 \in Nat /\ lastCommit + 1 <= NowValue /\ NowValue <= lastDispensed'
    BY <1>0, <1>1, <2>1 DEF Time
  <2>3. /\ ro'[r] \in RoState /\ ro'[r].pc = "open"
        /\ ro'[r].ts = NowValue /\ ro'[r].floor = lastCommit + 1
    BY Zenon, <1>1, <1>3, <2>1, <2>2
  <2> QED BY ZenonT(30), <2>2, <2>3, Opened
<1>8. ASSUME NEW t \in Time, ExactTimestamp(r, t) PROVE Well(r)
  <2>1. Open(r, t, t) /\ "ExactTimestamp" \in Bounds
    BY Zenon, <1>8 DEF ExactTimestamp, Asks
  <2>2. t \in Nat /\ t <= t /\ Bounds \cap FutureBounds # {}
    BY <1>0, <2>1 DEF Time, FutureBounds
  <2>3. ro'[r] \in RoState /\ ro'[r].pc = "open" /\ ro'[r].ts = t /\ ro'[r].floor = t
    BY Zenon, <1>3, <2>1, <2>2
  <2> QED BY Zenon, <2>2, <2>3, Opened
<1>9. ASSUME NEW t \in Time, MinTimestamp(r, t) PROVE Well(r)
  <2>1. TakeNow /\ "MinTimestamp" \in Bounds
    BY Zenon, <1>9 DEF MinTimestamp, Asks
  <2>2. CASE Choose(r, t, Max({t, lastCommit + 1}))
    BY Zenon, <1>1, <1>5, <2>1, <2>2
  <2>3. CASE Open(r, t, t)
    <3>1. t \in Nat /\ t <= t /\ Bounds \cap FutureBounds # {}
      BY <1>0, <2>1 DEF Time, FutureBounds
    <3>2. ro'[r] \in RoState /\ ro'[r].pc = "open" /\ ro'[r].ts = t /\ ro'[r].floor = t
      BY Zenon, <1>3, <2>3, <3>1
    <3> QED BY Zenon, <3>1, <3>2, Opened
  <2> QED BY Zenon, <1>9, <2>2, <2>3 DEF MinTimestamp
<1>10. ASSUME NEW d \in Time, ExactStaleness(r, d) PROVE Well(r)
  <2>1. TakeNow /\ d <= NowValue /\ Open(r, NowValue - d, NowValue - d)
    BY Zenon, <1>10 DEF ExactStaleness
  <2>2. /\ NowValue - d \in Time /\ NowValue - d \in Nat /\ NowValue - d <= lastDispensed'
        /\ NowValue - d <= NowValue - d
    BY <1>0, <1>1, <2>1 DEF Time
  <2>3. /\ ro'[r] \in RoState /\ ro'[r].pc = "open"
        /\ ro'[r].ts = NowValue - d /\ ro'[r].floor = NowValue - d
    BY Zenon, <1>3, <2>1, <2>2
  <2> QED BY Zenon, <2>2, <2>3, Opened
<1>11. ASSUME NEW d \in Time, MaxStaleness(r, d) PROVE Well(r)
  <2>1. /\ TakeNow /\ d <= NowValue
        /\ Choose(r, NowValue - d, Max({NowValue - d, lastCommit + 1}))
    BY Zenon, <1>11 DEF MaxStaleness
  <2>2. NowValue - d \in Time
    BY <1>0, <1>1, <2>1 DEF Time
  <2> QED BY Zenon, <1>1, <1>5, <2>1, <2>2
<1>12. CASE RaiseMinimum(r)
  <2> DEFINE m == Max({ro[r].pick, lastCommit})
  <2>0. ro[r].pick \in Nat /\ lastCommit \in Nat /\ ro[r].pick \in Time /\ ro[r].floor \in Nat
    BY <1>0 DEF RoState, Time
  <2>1. /\ m \in Nat /\ ro[r].pick <= m /\ lastCommit <= m
        /\ m = ro[r].pick \/ m = lastCommit
    BY Zenon, <2>0, MaxOfTwo
  <2>2. ro[r].pc = "bounded" /\ ro' = [ro EXCEPT ![r].pc = "raised", ![r].pick = m]
    BY Zenon, <1>12 DEF RaiseMinimum
  <2> HIDE DEF m
  <2>3. m \in Time
    BY Zenon, <1>0, <2>0, <2>1
  <2>4. /\ ro'[r] \in RoState /\ ro'[r].pc = "raised" /\ ro'[r].pick = m
        /\ ro'[r].floor = ro[r].floor
    BY Zenon, <1>0, <2>2, <2>3 DEF RoState, RoPhases, Picking
  <2>5. ro[r].floor <= ro[r].pick \/ ro[r].floor <= lastCommit + 1
    BY Zenon, <2>2 DEF PickInv
  <2>6. ro'[r].floor <= ro'[r].pick + 1
    BY <2>0, <2>1, <2>4, <2>5
  <2>7. PickInv(ro[r])' /\ ro'[r].pc \in Picking
    BY Zenon, <2>4, <2>6 DEF PickInv, Picking
  <2> QED BY Zenon, <2>4, <2>7, StillPicking
<1>13. CASE DrawStaleness(r)
  <2>1. PICK d \in 0..(NowValue - ro[r].pick - 1) :
          ro' = [ro EXCEPT ![r].pc = "drawn", ![r].pick = d]
    BY Zenon, <1>13 DEF DrawStaleness
  <2>2. ro[r].pc = "raised" /\ TakeNow
    BY Zenon, <1>13 DEF DrawStaleness
  <2>3. ro[r].pick \in Nat /\ ro[r].floor \in Nat
    BY <1>0 DEF RoState, Time
  <2>4. ro[r].floor <= ro[r].pick + 1
    BY Zenon, <2>2 DEF PickInv
  <2>5. d \in Time /\ ro[r].floor + d <= NowValue
    BY <1>0, <1>1, <2>2, <2>3, <2>4 DEF Time
  <2>6. /\ ro'[r] \in RoState /\ ro'[r].pc = "drawn" /\ ro'[r].pick = d
        /\ ro'[r].floor = ro[r].floor
    BY Zenon, <1>0, <2>1, <2>5 DEF RoState, RoPhases, Picking
  <2>7. ro'[r].floor + ro'[r].pick <= lastDispensed'
    BY Zenon, <1>1, <2>2, <2>5, <2>6
  <2>8. PickInv(ro[r])' /\ ro'[r].pc \in Picking
    BY Zenon, <2>6, <2>7 DEF PickInv, Picking
  <2> QED BY Zenon, <2>6, <2>8, StillPicking
<1>14. CASE StaleTimestamp(r)
  <2>1. /\ ro[r].pc = "drawn" /\ TakeNow
        /\ ro' = [ro EXCEPT ![r].pc = "open", ![r].ts = NowValue - ro[r].pick, ![r].pick = 0]
    BY Zenon, <1>14 DEF StaleTimestamp
  <2>2. ro[r].pick \in Nat /\ ro[r].floor \in Nat
    BY <1>0 DEF RoState, Time
  <2>3. ro[r].floor + ro[r].pick <= lastDispensed
    BY Zenon, <2>1 DEF PickInv
  <2>4. /\ NowValue - ro[r].pick \in Time /\ ro[r].floor <= NowValue - ro[r].pick
        /\ NowValue - ro[r].pick <= lastDispensed' /\ 0 \in Time
    BY <1>0, <1>1, <2>1, <2>2, <2>3 DEF Time
  <2>5. /\ ro'[r] \in RoState /\ ro'[r].pc = "open" /\ ro'[r].ts = NowValue - ro[r].pick
        /\ ro'[r].floor = ro[r].floor
    BY Zenon, <1>0, <2>1, <2>4 DEF RoState, RoPhases, Picking
  <2> QED BY Zenon, <2>4, <2>5, Opened
<1> QED BY Zenon, <1>6, <1>7, <1>8, <1>9, <1>10, <1>11, <1>12, <1>13, <1>14 DEF PickReadTimestamp

\* A reader that a step of others leaves alone.
LEMMA UntouchedWell ==
  ASSUME RWInv, Inv', ROTypeOK, MovesOn, NEW r \in Ro, ro'[r] = ro[r],
         PickInv(ro[r]), WaitInv(ro[r])
  PROVE  Well(r)
<1>t. ro[r] \in RoState /\ ro[r].ts \in Time /\ ro[r].floor \in Nat /\ ro[r].pick \in Time
  BY Zenon DEF ROTypeOK, RoState
<1>c. /\ lastDispensed \in Time /\ lastDispensed' \in Time /\ lastCommit \in Time
      /\ lastCommit' \in Time /\ systemTime \in Time /\ systemTime' \in Time
  <2>1. Inv
    BY Zenon DEF RWInv
  <2> QED BY Zenon, <2>1, ClockTypes
<1>0. /\ ro[r] \in RoState /\ ro[r].ts \in Int /\ ro[r].floor \in Int /\ ro[r].pick \in Int
      /\ lastDispensed \in Int /\ lastDispensed' \in Int /\ lastCommit \in Int
      /\ lastCommit' \in Int /\ systemTime \in Int /\ systemTime' \in Int
  BY Zenon, <1>t, <1>c, Integral
<1>1. /\ lastDispensed <= lastDispensed' /\ lastCommit <= lastCommit'
      /\ ~SystemClockMayStepBack => systemTime <= systemTime'
      /\ Frozen(ro[r].ts) => /\ ro[r].ts <= lastDispensed'
                             /\ \A c \in pending' : c > ro[r].ts
  BY Zenon, <1>t DEF MovesOn
<1>2. PickInv(ro[r])'
  <2>1. /\ ro[r].floor <= lastCommit + 1 => ro[r].floor <= lastCommit' + 1
        /\ ro[r].floor + ro[r].pick <= lastDispensed =>
             ro[r].floor + ro[r].pick <= lastDispensed'
    BY <1>0, <1>1
  <2> QED BY Zenon, <2>1 DEF PickInv, Picking
<1>3. WaitInv(ro[r])'
  <2>1. Steady' <=> Steady
    BY Zenon DEF Steady, FutureBounds
  <2>a. /\ ro[r].ts <= systemTime /\ systemTime <= systemTime' => ro[r].ts <= systemTime'
        /\ ro[r].ts <= lastDispensed => ro[r].ts <= lastDispensed'
    BY <1>0, <1>1
  <2>2. ~SystemClockMayStepBack /\ ro'[r].pc \in {"read due", "check"} => ro'[r].ts <= systemTime'
    BY <1>1, <2>a, Zenon DEF WaitInv
  <2>3. /\ Bounds \cap FutureBounds = {} /\ ro'[r].pc \notin Picking => ro'[r].ts <= lastDispensed'
        /\ Steady /\ ro'[r].pc \in {"checked", "checked due"} => ro'[r].ts <= lastDispensed'
    BY <2>a, Zenon DEF WaitInv
  <2>4. Steady /\ ro'[r].pc \in {"retained", "reading"} =>
          ro'[r].ts <= lastDispensed' /\ \A c \in pending' : c > ro'[r].ts
    BY <1>1, ZenonT(30) DEF WaitInv
  <2> QED BY <2>1, <2>2, <2>3, <2>4, ZenonT(30)
          DEF WaitInv, Frozen, NoPendingUpTo, Picking, FutureBounds
<1> QED BY Zenon, <1>0, <1>2, <1>3 DEF Well

\* A reader that goes on knows enough of the clock.
Timely(r) ==
  /\ ~SystemClockMayStepBack /\ ro'[r].pc \in {"read due", "check"} => ro[r].ts <= systemTime'
  /\ Steady /\ ro'[r].pc \in {"checked", "checked due"} => ro[r].ts <= lastDispensed'
  /\ Steady /\ ro'[r].pc \in {"retained", "reading"} =>
       ro[r].ts <= lastDispensed' /\ \A c \in pending' : c > ro[r].ts

\* Then it stays well.
LEMMA GoneOn ==
  ASSUME NEW r \in Ro, ro[r] \in RoState, ro'[r] \in RoState, PickInv(ro[r]), WaitInv(ro[r]),
         Goes(ro[r], ro'[r]), lastDispensed \in Time, lastDispensed' \in Time,
         lastDispensed <= lastDispensed', Timely(r)
  PROVE  Well(r)
<1>0. ro[r].ts <= lastDispensed => ro[r].ts <= lastDispensed'
  <2>1. ro[r].ts \in Time
    BY Zenon DEF RoState
  <2> QED BY <2>1, MaxTimeAssumption DEF Time
<1>1. /\ ro[r].pc \notin Picking /\ ro'[r].pc \notin Picking
      /\ ro'[r].ts = ro[r].ts /\ ro'[r].floor = ro[r].floor
  BY Zenon DEF Goes
<1>2. PickInv(ro[r])'
  <2>1. ro'[r].floor <= ro'[r].ts
    BY Zenon, <1>1 DEF PickInv
  <2>2. ro'[r].pc # "bounded" /\ ro'[r].pc # "raised" /\ ro'[r].pc # "drawn"
    BY Zenon, <1>1 DEF Picking
  <2> QED BY <2>1, <2>2, ZenonT(30) DEF PickInv
<1>3. Steady' <=> Steady
  BY Zenon DEF Steady, FutureBounds
<1>4. Bounds \cap FutureBounds = {} => ro'[r].ts <= lastDispensed'
  BY <1>0, <1>1, Zenon DEF WaitInv
<1>5. WaitInv(ro[r])'
  BY <1>1, <1>3, <1>4, Zenon DEF WaitInv, Frozen, NoPendingUpTo, FutureBounds, Timely
<1> QED BY Zenon, <1>2, <1>5 DEF Well

\* The type of a reader that goes on.
LEMMA GoesType ==
  ASSUME RWInv, ROTypeOK, SweepInv, NEW r \in Ro, TakeSchema(r) \/ ReadOnlyRead(r)
  PROVE  ro'[r] \in RoState
<1>0. ro \in [Ro -> RoState] /\ ro[r] \in RoState /\ lastDispensed \in Time /\ ro[r].ts \in Time
  BY Zenon DEF ROTypeOK, RoState, RWInv, Inv, TypeOK
<1>1. \A p \in {"open", "schema due", "schema", "read due", "check", "checked",
                "checked due", "retained", "reading"} : p \in RoPhases
  BY Zenon DEF RoPhases
<1>2. ASSUME NEW from, NEW due \in RoPhases, NEW to \in RoPhases, WaitForSafeRead(r, from, due, to)
      PROVE  ro'[r] \in RoState
  <2>1. CASE Move(r, from, due)
    BY Zenon, <1>0, <2>1 DEF Move, RoState
  <2>2. CASE ro' = [ro EXCEPT ![r].pc = to,
                              ![r].safeAt = IF ro[r].schema = None THEN lastDispensed ELSE @]
    BY Zenon, <1>0, <2>2 DEF RoState
  <2> QED BY Zenon, <1>2, <2>1, <2>2 DEF WaitForSafeRead
<1>3. ASSUME NEW ok \in RoPhases, SchemaShared(r, ok, "open") PROVE ro'[r] \in RoState
  <2>1. GetSchemaShared(ro[r].ts) \in Schema /\ IsSwept(ro[r].ts) \in BOOLEAN
    BY Zenon, <1>0, TakenSchema DEF IsSwept
  <2> DEFINE taken == IF ro[r].schema # None THEN ro[r]
                      ELSE [ro[r] EXCEPT !.schema = GetSchemaShared(ro[r].ts),
                                         !.swept = IsSwept(ro[r].ts)]
  <2>2. taken \in RoState
    BY Zenon, <1>0, <2>1 DEF RoState
  <2>3. ro' = [ro EXCEPT ![r] = [taken EXCEPT !.pc = IF taken.swept THEN "open" ELSE ok]]
    BY Zenon, <1>3 DEF SchemaShared
  <2> HIDE DEF taken
  <2> QED BY Zenon, <1>0, <1>1, <1>3, <2>2, <2>3 DEF RoState
<1>4. CASE CheckRetention(r)
  BY Zenon, <1>0, <1>1, <1>4 DEF CheckRetention, RoState
<1>5. ASSUME NEW k \in Key, ReadStorage(r, k) PROVE ro'[r] \in RoState
  <2>1. StoredAt(k, ro[r].ts) \in Value
    <3>1. ValueAt(k, ro[r].ts) \in Value
      BY Zenon, <1>0, VisibleType DEF RWInv, Inv, TypeOK, ValueAt, Row
    <3> QED BY Zenon, <3>1 DEF StoredAt, Value
  <2>2. PICK to \in {"reading", "open"} :
          ro' = [ro EXCEPT ![r].pc = to, ![r].seen[k] = StoredAt(k, ro[r].ts)]
    BY Zenon, <1>5 DEF ReadStorage
  <2> QED BY Zenon, <1>0, <1>1, <2>1, <2>2 DEF RoState
<1> QED BY Zenon, <1>1, <1>2, <1>3, <1>4, <1>5 DEF TakeSchema, ReadOnlyRead, ValidateSchemaRetained

\* Every wait and check of the clock is in time.
LEMMA GoesInTime ==
  ASSUME RWInv, ROTypeOK, NEW r \in Ro, ro'[r] \in RoState, WaitInv(ro[r]),
         TakeSchema(r) \/ ReadOnlyRead(r)
  PROVE  Timely(r) /\ lastDispensed <= lastDispensed'
<1>0. /\ ro \in [Ro -> RoState] /\ ro[r] \in RoState /\ ro[r].ts \in Int
      /\ lastDispensed \in Int /\ systemTime \in Int
  <2>1. Inv
    BY Zenon DEF RWInv
  <2>2. ro \in [Ro -> RoState] /\ ro[r] \in RoState /\ ro[r].ts \in Time
    BY Zenon DEF ROTypeOK, RoState
  <2> QED BY Zenon, <2>1, <2>2, ClockTypes, Integral
<1>1. ASSUME NoNow
      PROVE  UNCHANGED <<lastDispensed, systemTime, pending>> /\ lastDispensed <= lastDispensed'
  <2>1. UNCHANGED <<lastDispensed, systemTime, pending>>
    BY Zenon, <1>1 DEF NoNow, allVars, lmVars, clockVars, managerVars
  <2> QED BY <1>0, <2>1
<1>2. ASSUME NEW to, ro' = [ro EXCEPT ![r].pc = to] PROVE ro'[r].pc = to
  BY Zenon, <1>0, <1>2 DEF RoState
<1>3. ASSUME NEW to, to \in {"open", "schema due", "schema"}, ro'[r].pc = to PROVE Timely(r)
  BY <1>3, Zenon DEF Timely
<1>4. ASSUME NEW from, NEW due, NEW to, WaitForSafeRead(r, from, due, to)
      PROVE  /\ NoNow
             /\ \/ ro[r].pc = from /\ ro'[r].pc = due /\ ro[r].ts <= systemTime
                \/ ro[r].pc = due /\ ro'[r].pc = to /\ NoPendingUpTo(ro[r].ts)
  <2>1. CASE Move(r, from, due) /\ systemTime >= ro[r].ts
    BY Zenon, <1>0, <1>2, <1>4, <2>1 DEF Move, WaitForSafeRead
  <2>2. CASE /\ ro[r].pc = due
             /\ NoPendingUpTo(ro[r].ts)
             /\ ro' = [ro EXCEPT ![r].pc = to,
                                 ![r].safeAt = IF ro[r].schema = None THEN lastDispensed ELSE @]
    <3>1. ro'[r].pc = to
      BY Zenon, <1>0, <2>2 DEF RoState
    <3> QED BY Zenon, <1>4, <2>2, <3>1 DEF WaitForSafeRead
  <2> QED BY Zenon, <1>4, <2>1, <2>2 DEF WaitForSafeRead
<1>5. CASE WaitForSafeRead(r, "open", "schema due", "schema")
  BY <1>1, <1>3, <1>4, <1>5, Zenon
<1>6. CASE WaitForSafeRead(r, "open", "read due", "check")
  <2>1. NoNow /\ (ro'[r].pc = "read due" \/ ro'[r].pc = "check")
    BY <1>4, <1>6, Zenon
  <2>2. ~SystemClockMayStepBack => ro[r].ts <= systemTime'
    BY <1>1, <1>4, <1>6, Zenon DEF WaitInv
  <2> QED BY <1>1, <2>1, <2>2, Zenon DEF Timely
<1>7. CASE WaitForSafeRead(r, "checked", "checked due", "retained")
  <2>1. NoNow /\ (ro'[r].pc = "checked due" \/ (ro'[r].pc = "retained" /\ NoPendingUpTo(ro[r].ts)))
    BY <1>4, <1>7, Zenon
  <2>2. Steady => ro[r].ts <= lastDispensed'
    BY <1>1, <1>4, <1>7, Zenon DEF WaitInv
  <2> QED BY <1>1, <2>1, <2>2, Zenon DEF Timely, NoPendingUpTo
<1>8. ASSUME NEW ok, SchemaShared(r, ok, "open") PROVE ro'[r].pc = "open" \/ ro'[r].pc = ok
  <2> DEFINE taken == IF ro[r].schema # None THEN ro[r]
                      ELSE [ro[r] EXCEPT !.schema = GetSchemaShared(ro[r].ts),
                                         !.swept = IsSwept(ro[r].ts)]
  <2>1. ro' = [ro EXCEPT ![r] = [taken EXCEPT !.pc = IF taken.swept THEN "open" ELSE ok]]
    BY Zenon, <1>8 DEF SchemaShared
  <2>2. taken = [taken EXCEPT !.pc = taken.pc] /\ "pc" \in DOMAIN taken
    BY Zenon, <1>0 DEF RoState
  <2> HIDE DEF taken
  <2> QED BY Zenon, <1>0, <2>1, <2>2
<1>9. CASE ro[r].pc = "schema" /\ SchemaShared(r, "open", "open") /\ NoNow
  BY <1>1, <1>3, <1>8, <1>9, Zenon
<1>10. CASE ValidateSchemaRetained(r)
  <2>1. ro[r].pc = "retained" /\ NoNow /\ (ro'[r].pc = "open" \/ ro'[r].pc = "reading")
    BY <1>8, <1>10, Zenon DEF ValidateSchemaRetained
  <2>2. Steady => ro[r].ts <= lastDispensed' /\ \A c \in pending' : c > ro[r].ts
    BY <1>1, <2>1, Zenon DEF WaitInv, Frozen, NoPendingUpTo
  <2> QED BY <1>1, <2>1, <2>2, Zenon DEF Timely
<1>11. ASSUME NEW k \in Key, ReadStorage(r, k)
       PROVE  Timely(r) /\ lastDispensed <= lastDispensed'
  <2>1. PICK to \in {"reading", "open"} :
          ro' = [ro EXCEPT ![r].pc = to, ![r].seen[k] = StoredAt(k, ro[r].ts)]
    BY Zenon, <1>11 DEF ReadStorage
  <2>2. ro[r].pc = "reading" /\ NoNow
    BY Zenon, <1>11 DEF ReadStorage
  <2>3. ro'[r].pc = to
    BY Zenon, <1>0, <2>1 DEF RoState
  <2>4. Steady => ro[r].ts <= lastDispensed' /\ \A c \in pending' : c > ro[r].ts
    BY <1>1, <2>2, Zenon DEF WaitInv, Frozen, NoPendingUpTo
  <2> QED BY <1>1, <2>2, <2>3, <2>4, Zenon DEF Timely
<1>12. CASE CheckRetention(r)
  <2>1. PICK to \in {"open", "checked"} : ro' = [ro EXCEPT ![r].pc = to]
    BY Zenon, <1>12 DEF CheckRetention
  <2>2. ro[r].pc = "check" /\ TakeNow
    BY Zenon, <1>12 DEF CheckRetention
  <2>3. /\ lastDispensed' \in Time /\ lastDispensed' > lastDispensed
        /\ lastDispensed' >= systemTime
    BY Zenon, <2>2, NowFacts
  <2>4. lastDispensed' \in Int
    BY <2>3, MaxTimeAssumption DEF Time
  <2>5. ~SystemClockMayStepBack => ro[r].ts <= systemTime
    BY <2>2, Zenon DEF WaitInv
  <2>6. Bounds \cap FutureBounds = {} => ro[r].ts <= lastDispensed
    <3>1. ro[r].pc \notin Picking
      BY Zenon, <2>2 DEF Picking
    <3> QED BY <3>1, ZenonT(30) DEF WaitInv
  <2>7. Steady => ro[r].ts <= systemTime \/ ro[r].ts <= lastDispensed
    BY <2>5, <2>6, ZenonT(30) DEF Steady
  <2>8. /\ ro[r].ts <= systemTime \/ ro[r].ts <= lastDispensed => ro[r].ts <= lastDispensed'
        /\ lastDispensed <= lastDispensed'
    BY <1>0, <2>3, <2>4
  <2>9. ro'[r].pc = to
    BY ZenonT(30), <1>2, <2>1
  <2> QED BY <2>7, <2>8, <2>9, Zenon DEF Timely
<1> QED BY <1>5, <1>6, <1>7, <1>9, <1>10, <1>11, <1>12, Zenon DEF TakeSchema, ReadOnlyRead

\* Every step leaves every reader well.
LEMMA WellStep ==
  ASSUME RWInv, RWInv', ROTypeOK, SweepInv, MovesOn, NEW r \in Ro, PickInv(ro[r]), WaitInv(ro[r]),
         [RONext]_everything
  PROVE  Well(r)
<1>0. ro[r] \in RoState /\ lastDispensed \in Time /\ lastDispensed' \in Time /\ Inv'
  BY Zenon DEF ROTypeOK, RWInv, Inv, TypeOK
<1>1. CASE ro'[r] = ro[r]
  BY Zenon, <1>0, <1>1, UntouchedWell
<1>2. CASE PickReadTimestamp(r)
  BY Zenon, <1>2, PickedWell
<1>3. CASE (TakeSchema(r) \/ ReadOnlyRead(r)) /\ Goes(ro[r], ro'[r])
  <2>1. ro'[r] \in RoState
    BY Zenon, <1>3, GoesType
  <2> QED BY Zenon, <1>0, <1>3, <2>1, GoesInTime, GoneOn
<1> QED BY Zenon, <1>1, <1>2, <1>3, ReaderSteps

--------------------------------------------------------------------------------
(* Theorems *)

\* Every step keeps the invariant.
LEMMA ROInvStep == ROInv /\ [RONext]_everything => ROInv'
<1> SUFFICES ASSUME ROInv, [RONext]_everything PROVE ROInv'
  BY Zenon
<1>0. /\ RWInv /\ ROTypeOK /\ SweepInv
      /\ \A r \in Ro : PickInv(ro[r]) /\ WaitInv(ro[r]) /\ SeenInv(ro[r]) /\ SchemaInv(ro[r])
  BY Zenon DEF ROInv, ReaderInv
<1>1. [RWNext]_allVars
  BY Zenon, ReaderIsAStep
<1>2. RWInv' /\ Inv /\ Inv'
  BY Zenon, <1>0, <1>1, RWInvStep DEF RWInv
<1>3. MovesOn /\ CatalogMovesOn
  BY Zenon, <1>0, <1>1, <1>2, RWStepIsAStep, StepsMoveOn, CatalogStepsMoveOn
<1>4. SweepInv' /\ SweepTypeOK' /\ dropped \subseteq dropped'
  BY Zenon, <1>0, <1>2, <1>3, SweepStep
<1>5. ASSUME NEW r \in Ro PROVE ro'[r] \in RoState /\ ReaderInv(ro[r])'
  <2>1. ro'[r] = ro[r] \/ Picks(ro[r], ro'[r]) \/ Goes(ro[r], ro'[r])
    BY Zenon, <1>0, ReaderSteps
  <2>2. ro'[r] \in RoState /\ PickInv(ro[r])' /\ WaitInv(ro[r])'
    BY <1>0, <1>2, <1>3, WellStep, Zenon DEF Well
  <2>3. SeenInv(ro[r])'
    BY <1>0, <1>2, <1>3, <2>1, SeenStep, Zenon
  <2>4. SchemaInv(ro[r])'
    BY <1>0, <1>2, <1>3, <1>4, <2>1, <2>2, SchemaStep, Zenon
  <2> QED BY <2>2, <2>3, <2>4, ZenonT(30) DEF ReaderInv
<1>6. ro' \in [Ro -> RoState]
  <2>1. ro' = [q \in Ro |-> ro'[q]]
    <3>0. ro = [q \in Ro |-> ro[q]]
      BY Zenon, <1>0 DEF ROTypeOK
    <3>1. CASE UNCHANGED ro
      BY Zenon, <3>0, <3>1
    <3>2. CASE \E r \in Ro : PickReadTimestamp(r) \/ TakeSchema(r) \/ ReadOnlyRead(r)
      BY Zenon, <1>0, <3>2, ReaderShape
    <3>3. CASE StartSweep \/ FinishSweep \/ Others \/ UNCHANGED everything
      BY Zenon, <3>1, <3>3 DEF StartSweep, FinishSweep, Others, everything, roVars
    <3>4. CASE \E d \in Ddl : ApplyRetentionAndExpire(d)
      BY Zenon, <3>1, <3>4 DEF ApplyRetentionAndExpire
    <3> QED BY Zenon, <3>2, <3>3, <3>4 DEF RONext
  <2> QED BY Zenon, <1>5, <2>1
<1>7. ROTypeOK'
  BY Zenon, <1>4, <1>6 DEF ROTypeOK, SweepTypeOK
<1> QED BY <1>2, <1>4, <1>5, <1>7, Zenon DEF ROInv

\* Readers and sweeps start as the invariant says.
LEMMA ROInitInv == ROInit /\ RWInv => ROInv
<1> SUFFICES ASSUME ROInit, RWInv PROVE ROInv
  BY Zenon
<1>0. 0 \in Time /\ 0 \in Nat /\ MaxTime \in Nat /\ catalog[0] # None
  BY MaxTimeAssumption, SchemaAssumption DEF Time, RWInv, CatalogInv
<1>1. NewRo \in RoState
  BY Zenon, <1>0 DEF NewRo, RoState, RoPhases, Picking, NotRead
<1>2. ROTypeOK
  BY Zenon, <1>0, <1>1 DEF ROInit, ROTypeOK
<1>3. ASSUME NEW r \in Ro PROVE ReaderInv(ro[r])
  <2>1. ro[r] = NewRo
    BY Zenon DEF ROInit
  <2>2. /\ NewRo.pc = "new" /\ NewRo.schema = None /\ NewRo.safeAt = 0
        /\ \A k \in Key : NewRo.seen[k] = None
    BY Zenon DEF NewRo, NotRead
  <2>3. "new" \in Picking
    BY Zenon DEF Picking
  <2>4. PickInv(ro[r])
    BY Zenon, <2>1, <2>2, <2>3 DEF PickInv
  <2>5. WaitInv(ro[r])
    BY <2>1, <2>2, <2>3, Zenon DEF WaitInv
  <2>6. SeenInv(ro[r]) /\ SchemaInv(ro[r])
    BY <2>1, <2>2, <2>3, ZenonT(30) DEF SeenInv, SchemaInv
  <2> QED BY Zenon, <2>4, <2>5, <2>6 DEF ReaderInv
<1>4. SweepInv
  BY <1>0 DEF ROInit, SweepInv, Kept, Time
<1> QED BY Zenon, <1>2, <1>3, <1>4 DEF ROInv

\* The inductive invariant of readers, sweeps and everything they read.
THEOREM ROInvariance == ROSpec => []ROInv
<1>1. ROSpec => []RWInv
  BY ReadersAreInvisible, RWInvariance, PTL
<1> QED BY <1>1, ROInitInv, ROInvStep, PTL DEF ROSpec

\* A read timestamp meets its bound, whatever commits, schema changes and calls of
\* the clock come between the steps that compute it.
THEOREM BoundTheorem == ROSpec => []BoundIsMet
<1>1. ROInv => BoundIsMet
  <2> SUFFICES ASSUME ROInv, NEW r \in Ro, ro[r].pc \notin Picking
               PROVE  ro[r].ts >= ro[r].floor
    BY Zenon DEF BoundIsMet
  <2>1. ro[r].floor <= ro[r].ts
    BY Zenon DEF ROInv, ReaderInv, PickInv
  <2> QED BY Zenon, <2>1
<1> QED BY <1>1, ROInvariance, PTL

\* Reads of a read-only transaction are of one moment, unless the system clock is
\* set back while a reader waits for a timestamp in the future.
THEOREM ReadsTheorem == ASSUME Steady PROVE ROSpec => []ReadsAreOfOneMoment
<1>1. ROInv => ReadsAreOfOneMoment
  <2> SUFFICES ASSUME ROInv, NEW r \in Ro, NEW k \in Key
               PROVE  SeenIsCurrent(r, k) \/ (ro[r].seen[k] = Absent /\ ro[r].ts < oldest[k])
    BY Zenon DEF ReadsAreOfOneMoment
  <2>1. SeenInv(ro[r])
    BY Zenon DEF ROInv, ReaderInv
  <2> QED BY <2>1, Zenon DEF SeenInv, SeenIsCurrent
<1> QED BY <1>1, ROInvariance, PTL

\* The schema a reader takes is the one in effect at its timestamp, or it is known
\* to be gone, or the clock had not handed out the timestamp yet.
THEOREM SchemaTheorem == ROSpec => []SchemaIsInEffect
<1>1. ROInv => SchemaIsInEffect
  <2> SUFFICES ASSUME ROInv, NEW r \in Ro PROVE SchemaOrFallback(r) \/ ro[r].safeAt < ro[r].ts
    BY Zenon DEF SchemaIsInEffect
  <2>1. SchemaInv(ro[r])
    BY Zenon DEF ROInv, ReaderInv
  <2>2. ro[r].ts <= ro[r].safeAt \/ ro[r].safeAt < ro[r].ts
    <3>1. ro[r].ts \in Time /\ ro[r].safeAt \in Time
      BY Zenon DEF ROInv, ROTypeOK, RoState
    <3> QED BY <3>1, MaxTimeAssumption DEF Time
  <2> QED BY <2>1, <2>2, Zenon DEF SchemaInv, SchemaOrFallback
<1> QED BY <1>1, ROInvariance, PTL

\* A time in the swept range has lost its schema.
THEOREM SweptTheorem == ROSpec => []SweptRangeIsGone
<1>1. ROInv => SweptRangeIsGone
  <2> SUFFICES ASSUME ROInv, NEW t \in Time, IsSwept(t), Created(t) \notin erased PROVE FALSE
    BY Zenon DEF SweptRangeIsGone
  <2> DEFINE c == Created(t)
  <2>0. RWInv /\ SweepInv /\ sweptBegin \in Time /\ sweptEnd \in Time /\ t \in Time
    BY Zenon DEF ROInv, ROTypeOK
  <2>1. /\ c \in Time /\ c <= t /\ catalog[c] # None
        /\ \A u \in Time : u <= t /\ catalog[u] # None => u <= c
    BY Zenon, <2>0, CreatedProperty
  <2>2. c \in Kept
    BY Zenon, <2>1 DEF Kept
  <2> HIDE DEF c
  <2>3. sweptBegin <= t /\ t < sweptEnd /\ sweptBegin < sweptEnd
    BY <2>0, MaxTimeAssumption DEF IsSwept, Time
  <2>4. sweptBegin # 0 /\ sweptBegin <= c
    BY Zenon, <2>0, <2>1, <2>3 DEF SweepInv
  <2>5. c # 0
    BY <2>0, <2>1, <2>4, MaxTimeAssumption DEF Time
  <2>6. sweptEnd <= c
    BY Zenon, <2>0, <2>2, <2>5 DEF SweepInv
  <2> QED BY <2>0, <2>1, <2>3, <2>6, MaxTimeAssumption DEF Time
<1> QED BY <1>1, ROInvariance, PTL

\* Sweeps and schema changes keep every schema that the retention period covers.
THEOREM CoveredTheorem == ROSpec => CoveredSchemasAreKept
<1> DEFINE Keeps == \A t \in Time : lastDispensed <= t + period => Created(t) \notin erased' \ erased
<1>1. ASSUME ROInv, [RONext]_everything PROVE [Keeps]_everything
  <2>0. RWInv /\ SweepInv /\ lastDispensed \in Time /\ period \in Nat /\ MaxTime \in Nat
    BY Zenon, <1>1, MaxTimeAssumption, RetentionAssumption
       DEF ROInv, RWInv, RWTypeOK, Inv, TypeOK
  <2>1. ASSUME NEW now \in Time, now <= lastDispensed, erased' = erased \cup Removed(now)
        PROVE  Keeps
    <3> SUFFICES ASSUME NEW t \in Time, lastDispensed <= t + period, Created(t) \in Removed(now)
                 PROVE  FALSE
      BY Zenon, <2>1
    <3>1. PICK u \in Kept : Created(t) < u /\ u <= now - period
      BY Zenon DEF Removed
    <3>2. u \in Time /\ catalog[u] # None
      BY Zenon, <3>1 DEF Kept
    <3>3. u <= t
      BY <2>0, <2>1, <3>1, <3>2 DEF Time
    <3>4. u <= Created(t) /\ Created(t) \in Time
      BY Zenon, <2>0, <3>2, <3>3, CreatedProperty
    <3> QED BY <2>0, <3>1, <3>2, <3>4 DEF Time
  <2>2. CASE UNCHANGED erased
    BY Zenon, <2>2
  <2>3. CASE FinishSweep
    <3>1. sweepTime \in Time /\ sweepTime <= lastDispensed /\ erased' = erased \cup Removed(sweepTime)
      BY Zenon, <1>1, <2>3 DEF ROInv, ROTypeOK, SweepInv, FinishSweep, SweepExpiredSchemas
    <3> QED BY Zenon, <2>1, <3>1
  <2>4. ASSUME NEW d \in Ddl, ApplyRetentionAndExpire(d) PROVE Keeps
    <3>1. /\ erased' = erased \cup Removed(commitTs[d]) /\ pc[d] = "flushing" /\ d \in Committer
      BY Zenon, <2>4 DEF ApplyRetentionAndExpire, RemoveExpiredSchemas, ApplyRetention,
         SetVersionRetentionPeriod, Committer
    <3>2. commitTs[d] \in Time /\ commitTs[d] <= lastDispensed
      BY Zenon, <2>0, <3>1 DEF RWInv, Inv, TypeOK, PendingInv
    <3> QED BY Zenon, <2>1, <3>1, <3>2
  <2>5. ASSUME NEW r \in Ro, PickReadTimestamp(r) \/ TakeSchema(r) \/ ReadOnlyRead(r)
        PROVE  UNCHANGED erased
    BY Zenon, <2>5, ReaderFrames DEF sweepVars
  <2>6. CASE StartSweep \/ Others \/ UNCHANGED everything
    BY Zenon, <2>2, <2>6 DEF StartSweep, Others, everything, roVars, sweepVars
  <2> HIDE DEF Keeps
  <2> QED BY Zenon, <1>1, <2>2, <2>3, <2>4, <2>5, <2>6 DEF RONext
<1> QED BY <1>1, ROInvariance, PTL DEF ROSpec, CoveredSchemasAreKept

================================================================================
