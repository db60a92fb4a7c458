-------------------------- MODULE EntityStorageProofs --------------------------
(***************************************************************************)
(* What the storage of an entity's records promises for any number of      *)
(* adapters, processes, records and faults.                                *)
(***************************************************************************)
EXTENDS EntityStorage, TLAPS

USE MigrationsAssumption, StorageAssumption

-----------------------------------------------------------------------------
(***************************************************************************)
(* Types.                                                                  *)
(***************************************************************************)
SchemaTypeOK ==
  /\ recorded \subseteq Version /\ tables \subseteq Prefix /\ indexes \subseteq Prefix
  /\ phase \in [Adapter -> {"unopened", "migrating", "recording", "open", "closed",
                           "reclosed"}]
  /\ pending \in [Adapter -> SUBSET Version]
  /\ faults \in 0..MaxFaults

StoreTypeOK ==
  /\ adapters \in [Process -> Adapter \cup {None}]
  /\ rows \in [Prefix -> SUBSET Record] /\ cleaned \subseteq Record
  /\ worker \in Process \cup {None}

ActivityTypeOK ==
  /\ goroutine \in [Record -> {"idle", "started", "storing", "waiting", "ended"}]
  /\ storageAdapter \in [Record -> Adapter \cup {None}]
  /\ attempt \in [Record -> 0..MaxRetries]
  /\ answer \in [Record -> {"none", "awaited", "skipped", "success", "failure",
                            "timeout"}]
  /\ history \subseteq Record

LEMMA TypeParts == TypeOK <=> SchemaTypeOK /\ StoreTypeOK /\ ActivityTypeOK
  BY DEF TypeOK, SchemaTypeOK, StoreTypeOK, ActivityTypeOK

LEMMA InitType == Init => TypeOK
  <1> SUFFICES ASSUME Init PROVE TypeOK
    OBVIOUS
  <1>1. SchemaTypeOK
    BY DEF Init, InitMigrations, SchemaTypeOK, Version
  <1>2. StoreTypeOK
    BY DEF Init, StoreTypeOK
  <1>3. ActivityTypeOK
    BY DEF Init, ActivityTypeOK
  <1> QED
    BY <1>1, <1>2, <1>3, TypeParts

\* The steps of an opening and those of the registry.
LEMMA NextSchemaType ==
  ASSUME SchemaTypeOK, StoreTypeOK, [Next]_vars
  PROVE  SchemaTypeOK'
  <1> USE DEF SchemaTypeOK, StoreTypeOK, schema, opening
  <1>1. ASSUME NEW a \in Adapter, Opening(a) PROVE SchemaTypeOK'
    <2>1. NextVersion(a) \in Version /\ TablePrefix[a] \in Prefix
      BY DEF NextVersion, Version, Prefix
    <2>2. CASE OpenStep(a)
      BY <2>1, <2>2 DEF OpenStep, Connect, ApplyMigration, RecordMigration,
                        PrepareStatements, OpenRefused, GiveUp
    <2>3. CASE OpenFails(a)
      BY <2>3 DEF OpenFails, GiveUp
    <2> QED
      BY <1>1, <2>2, <2>3 DEF Opening
  <1>2. ASSUME NEW p \in Process, NEW a \in Adapter \cup {None},
               RegisterStorageAdapter(p, a)
        PROVE  SchemaTypeOK'
    BY <1>2 DEF RegisterStorageAdapter
  <1>3. ASSUME NEW p \in Process, CloseAll(p) PROVE SchemaTypeOK'
    BY <1>3 DEF CloseAll
  <1>4. ASSUME NEW p \in Process, Crash(p) PROVE SchemaTypeOK'
    <2>1. faults' \in 0..MaxFaults
      BY <1>4 DEF Crash
    <2>2. /\ phase' \in [Adapter -> {"unopened", "migrating", "recording",
                                     "open", "closed", "reclosed"}]
          /\ pending' \in [Adapter -> SUBSET Version]
      BY <1>4 DEF Crash
    <2>3. UNCHANGED schema
      BY <1>4 DEF Crash
    <2> QED
      BY <2>1, <2>2, <2>3
  <1>5. ASSUME NEW a \in Adapter, CleanupOldRecords(a) PROVE SchemaTypeOK'
    BY <1>5 DEF CleanupOldRecords
  <1>6. ASSUME NEW p \in Process, PickUp(p) PROVE SchemaTypeOK'
    BY <1>6 DEF PickUp
  <1>7. ASSUME NEW r \in Record, HandOver(r) \/ ActivityStep(r) \/ Expire(r)
        PROVE  SchemaTypeOK'
    BY <1>7 DEF HandOver, ActivityStep, Expire, LookUp, LookUpNothing, Invalid,
                Attempt, Insert, InsertRefused, InsertFails, Interrupted, Retry
  <1>8. CASE CompleteTask \/ UNCHANGED vars
    BY <1>8 DEF CompleteTask, vars
  <1> QED
    BY <1>1, <1>2, <1>3, <1>4, <1>5, <1>6, <1>7, <1>8 DEF Next

\* A record is only ever added to a table, or cleaned up.
LEMMA RowsStep ==
  ASSUME TypeOK, [Next]_vars
  PROVE  \/ UNCHANGED tableVars
         \/ \E r \in Record : /\ goroutine[r] = "storing"
                              /\ Inserted(r)
                              /\ cleaned' = cleaned
         \/ \E a \in Adapter : CleanupOldRecords(a)
  <1> USE DEF tableVars
  <1>1. ASSUME NEW a \in Adapter, Opening(a) PROVE UNCHANGED tableVars
    BY <1>1 DEF Opening
  <1>2. ASSUME NEW p \in Process,
               \/ \E a \in Adapter \cup {None} : RegisterStorageAdapter(p, a)
               \/ CloseAll(p) \/ Crash(p) \/ PickUp(p)
        PROVE  UNCHANGED tableVars
    BY <1>2 DEF RegisterStorageAdapter, CloseAll, Crash, PickUp
  <1>3. ASSUME NEW r \in Record, HandOver(r) \/ ActivityStep(r) \/ Expire(r)
        PROVE  \/ UNCHANGED tableVars
               \/ goroutine[r] = "storing" /\ Inserted(r) /\ cleaned' = cleaned
    BY <1>3 DEF HandOver, ActivityStep, Expire, LookUp, LookUpNothing, Invalid,
                Attempt, Insert, InsertRefused, InsertFails, Interrupted, Retry
  <1>4. CASE CompleteTask \/ UNCHANGED vars
    BY <1>4 DEF CompleteTask, vars
  <1> QED
    BY <1>1, <1>2, <1>3, <1>4 DEF Next

LEMMA NextStoreType ==
  ASSUME TypeOK, [Next]_vars
  PROVE  StoreTypeOK'
  <1>0. StoreTypeOK
    BY TypeParts
  <1>1. rows' \in [Prefix -> SUBSET Record] /\ cleaned' \subseteq Record
    <2>1. CASE UNCHANGED tableVars
      BY <1>0, <2>1 DEF tableVars, StoreTypeOK
    <2>2. ASSUME NEW r \in Record, Inserted(r), cleaned' = cleaned
          PROVE  rows' \in [Prefix -> SUBSET Record] /\ cleaned' \subseteq Record
      BY <1>0, <2>2 DEF Inserted, StoreTypeOK
    <2>3. ASSUME NEW a \in Adapter, CleanupOldRecords(a)
          PROVE  rows' \in [Prefix -> SUBSET Record] /\ cleaned' \subseteq Record
      <3>1. TablePrefix[a] \in Prefix
        BY DEF Prefix
      <3> QED
        BY <1>0, <2>3, <3>1 DEF CleanupOldRecords, StoreTypeOK
    <2> QED
      BY <2>1, <2>2, <2>3, RowsStep
  <1>2. /\ adapters' \in [Process -> Adapter \cup {None}]
        /\ worker' \in Process \cup {None}
    <2> USE <1>0 DEF StoreTypeOK, workflowVars
    <2>1. ASSUME NEW a \in Adapter, Opening(a) \/ CleanupOldRecords(a)
          PROVE  UNCHANGED <<adapters, worker>>
      BY <2>1 DEF Opening, CleanupOldRecords
    <2>2. ASSUME NEW p \in Process, NEW a \in Adapter \cup {None},
                 RegisterStorageAdapter(p, a)
          PROVE  /\ adapters' \in [Process -> Adapter \cup {None}]
                 /\ worker' \in Process \cup {None}
      BY <2>2 DEF RegisterStorageAdapter
    <2>3. ASSUME NEW p \in Process, CloseAll(p) \/ Crash(p) \/ PickUp(p)
          PROVE  /\ adapters' \in [Process -> Adapter \cup {None}]
                 /\ worker' \in Process \cup {None}
      BY <2>3 DEF CloseAll, Crash, PickUp
    <2>4. ASSUME NEW r \in Record, HandOver(r) \/ ActivityStep(r) \/ Expire(r)
          PROVE  UNCHANGED <<adapters, worker>>
      BY <2>4 DEF HandOver, ActivityStep, Expire, LookUp, LookUpNothing, Invalid,
                  Attempt, Insert, InsertRefused, InsertFails, Interrupted, Retry
    <2>5. CASE CompleteTask \/ UNCHANGED vars
      BY <2>5 DEF CompleteTask, vars
    <2> QED
      BY <2>1, <2>2, <2>3, <2>4, <2>5 DEF Next
  <1> QED
    BY <1>1, <1>2 DEF StoreTypeOK

\* What an end of an activity, and another attempt, leave of its types.
LEMMA EndsTyped ==
  ASSUME ActivityTypeOK, NEW r \in Record, NEW result \in {"success", "failure"},
         Ends(r, result), UNCHANGED <<storageAdapter, history>>
  PROVE  ActivityTypeOK'
  BY DEF Ends, ActivityTypeOK

LEMMA TryAgainTyped ==
  ASSUME ActivityTypeOK, NEW r \in Record, TryAgain(r),
         UNCHANGED <<storageAdapter, history>>
  PROVE  ActivityTypeOK'
  <1>1. CASE attempt[r] < MaxRetries
    <2>1. attempt[r] \in 0..MaxRetries /\ attempt[r] + 1 \in 0..MaxRetries
      BY <1>1 DEF ActivityTypeOK
    <2> QED
      BY <1>1, <2>1 DEF TryAgain, ActivityTypeOK
  <1>2. CASE ~(attempt[r] < MaxRetries)
    BY <1>2, EndsTyped DEF TryAgain
  <1> QED
    BY <1>1, <1>2

\* An activity runs on the worker of its run.
RunsSomewhere == worker = None => \A r \in Record : ~Running(r)

LEMMA NextActivityType ==
  ASSUME TypeOK, RunsSomewhere, [Next]_vars
  PROVE  ActivityTypeOK'
  <1> USE DEF activity, workflowVars
  <1>0. StoreTypeOK /\ ActivityTypeOK
    BY TypeParts
  <1>1. ASSUME NEW a \in Adapter, Opening(a) \/ CleanupOldRecords(a)
        PROVE  ActivityTypeOK'
    BY <1>0, <1>1 DEF Opening, CleanupOldRecords, ActivityTypeOK
  <1>2. ASSUME NEW p \in Process,
               \/ \E a \in Adapter \cup {None} : RegisterStorageAdapter(p, a)
               \/ CloseAll(p) \/ PickUp(p)
        PROVE  ActivityTypeOK'
    BY <1>0, <1>2 DEF RegisterStorageAdapter, CloseAll, PickUp, ActivityTypeOK
  <1>3. ASSUME NEW p \in Process, Crash(p)
        PROVE  ActivityTypeOK'
    BY <1>0, <1>3 DEF Crash, ActivityTypeOK
  <1>4. ASSUME NEW r \in Record, HandOver(r) \/ Expire(r)
        PROVE  ActivityTypeOK'
    BY <1>0, <1>4 DEF HandOver, Expire, ActivityTypeOK
  <1>5. ASSUME NEW r \in Record, ActivityStep(r)
        PROVE  ActivityTypeOK'
    <2>1. CASE LookUp(r)
      <3>1. worker \in Process
        BY <1>0, <2>1 DEF LookUp, RunsSomewhere, Running, StoreTypeOK
      <3>2. adapters[worker] \in Adapter \cup {None}
        BY <1>0, <3>1 DEF StoreTypeOK
      <3> QED
        BY <1>0, <2>1, <3>2 DEF LookUp, ActivityTypeOK
    <2>2. CASE LookUpNothing(r) \/ Invalid(r) \/ Insert(r) \/ InsertRefused(r)
      BY <1>0, <2>2, EndsTyped DEF LookUpNothing, Invalid, Insert, InsertRefused
    <2>3. CASE InsertFails(r)
      BY <1>0, <2>3, TryAgainTyped DEF InsertFails
    <2>4. CASE Interrupted(r)
      BY <1>0, <2>4, EndsTyped DEF Interrupted
    <2>5. CASE Retry(r)
      BY <1>0, <2>5 DEF Retry, ActivityTypeOK
    <2> QED
      BY <1>5, <2>1, <2>2, <2>3, <2>4, <2>5 DEF ActivityStep, Attempt
  <1>6. CASE CompleteTask \/ UNCHANGED vars
    BY <1>0, <1>6 DEF CompleteTask, vars, ActivityTypeOK
  <1> QED
    BY <1>1, <1>2, <1>3, <1>4, <1>5, <1>6 DEF Next

LEMMA NextRunsSomewhere ==
  ASSUME TypeOK, RunsSomewhere, [Next]_vars
  PROVE  RunsSomewhere'
  <1> USE DEF RunsSomewhere, Running, activity, workflowVars
  <1>0. StoreTypeOK /\ ActivityTypeOK
    BY TypeParts
  <1>1. ASSUME NEW a \in Adapter, Opening(a) \/ CleanupOldRecords(a)
        PROVE  RunsSomewhere'
    BY <1>1 DEF Opening, CleanupOldRecords
  <1>2. ASSUME NEW p \in Process,
               \/ \E a \in Adapter \cup {None} : RegisterStorageAdapter(p, a)
               \/ CloseAll(p)
        PROVE  RunsSomewhere'
    BY <1>2 DEF RegisterStorageAdapter, CloseAll
  <1>3. ASSUME NEW p \in Process, Crash(p)
        PROVE  RunsSomewhere'
    BY <1>3 DEF Crash
  <1>4. ASSUME NEW p \in Process, PickUp(p)
        PROVE  RunsSomewhere'
    BY <1>4, StorageAssumption DEF PickUp
  <1>5. ASSUME NEW r \in Record, HandOver(r) \/ Expire(r)
        PROVE  RunsSomewhere'
    BY <1>5 DEF HandOver, Expire
  <1>6. ASSUME NEW r \in Record, ActivityStep(r)
        PROVE  RunsSomewhere'
    <2>1. Running(r) /\ worker' = worker
      BY <1>6 DEF ActivityStep, LookUp, LookUpNothing, Invalid, Attempt, Insert,
                  InsertRefused, InsertFails, Interrupted, Retry
    <2> QED
      BY <2>1
  <1>7. CASE CompleteTask \/ UNCHANGED vars
    BY <1>7 DEF CompleteTask, vars
  <1> QED
    BY <1>1, <1>2, <1>3, <1>4, <1>5, <1>6, <1>7 DEF Next

StorageTypes == TypeOK /\ RunsSomewhere

LEMMA StorageTyped == Spec => []StorageTypes
  <1>1. Init => StorageTypes
    BY InitType DEF Init, StorageTypes, RunsSomewhere, Running
  <1>2. StorageTypes /\ [Next]_vars => StorageTypes'
    BY NextSchemaType, NextStoreType, NextActivityType, NextRunsSomewhere, TypeParts
       DEF StorageTypes, TypeOK, SchemaTypeOK, StoreTypeOK, ActivityTypeOK
  <1> QED
    BY <1>1, <1>2, PTL DEF Spec

\* The types hold; in particular an insert is attempted no more often than
\* configured.
THEOREM StorageTypeCorrect == Spec => []TypeOK
  <1>1. StorageTypes => TypeOK
    BY DEF StorageTypes
  <1> QED
    BY <1>1, StorageTyped, PTL

Kept == \A x \in Prefix : rows[x] \subseteq rows'[x] \cup cleaned'

LEMMA RowsKept ==
  ASSUME TypeOK, [Next]_vars
  PROVE  Kept /\ cleaned \subseteq cleaned'
  <1> USE DEF Kept
  <1>0. StoreTypeOK
    BY TypeParts
  <1>1. CASE UNCHANGED tableVars
    BY <1>1 DEF tableVars
  <1>2. ASSUME NEW r \in Record, Inserted(r), cleaned' = cleaned
        PROVE  Kept /\ cleaned \subseteq cleaned'
    BY <1>0, <1>2 DEF Inserted, StoreTypeOK
  <1>3. ASSUME NEW a \in Adapter, CleanupOldRecords(a)
        PROVE  Kept /\ cleaned \subseteq cleaned'
    BY <1>0, <1>3 DEF CleanupOldRecords, StoreTypeOK, Prefix
  <1> QED
    BY <1>1, <1>2, <1>3, RowsStep

\* A row stays until it is cleaned up, whatever is inserted after it.
THEOREM StorageStoredUntilCleaned == Spec => StoredUntilCleaned
  <1>1. TypeOK /\ [Next]_vars => [Kept]_vars
    BY RowsKept
  <1> QED
    BY <1>1, StorageTypeCorrect, PTL DEF Spec, StoredUntilCleaned, Kept

-----------------------------------------------------------------------------
(***************************************************************************)
(* An open adapter is migrated.                                            *)
(***************************************************************************)

\* What an opening has behind it is recorded, and what it is about to record has
\* been done.
OpeningInv(a) ==
  /\ phase[a] \in {"migrating", "recording"} => Version \ pending[a] \subseteq recorded
  /\ phase[a] = "recording" =>
       /\ pending[a] # {}
       /\ 1 \in pending[a] => TablePrefix[a] \in tables
       /\ 1 \notin pending[a] => TablePrefix[a] \in indexes
  /\ phase[a] = "open" => TablePrefix[a] \in tables /\ recorded = Version

RecordedDone ==
  /\ 1 \in recorded => tables # {}
  /\ 2 \in recorded => indexes # {}

MigrationInv == RecordedDone /\ \A a \in Adapter : OpeningInv(a)

\* A step of an opening; any other step leaves the schema alone and moves an
\* adapter, if at all, to where nothing is promised of it.
LEMMA SchemaStep ==
  ASSUME TypeOK, [Next]_vars
  PROVE  \/ \E a \in Adapter : OpenStep(a)
         \/ /\ UNCHANGED schema
            /\ \A a \in Adapter : \/ phase'[a] = phase[a] /\ pending'[a] = pending[a]
                                  \/ phase'[a] \in {"unopened", "closed", "reclosed"}
  <1> DEFINE Left == \A a \in Adapter :
               \/ phase'[a] = phase[a] /\ pending'[a] = pending[a]
               \/ phase'[a] \in {"unopened", "closed", "reclosed"}
  <1> USE DEF opening
  <1>0. SchemaTypeOK /\ StoreTypeOK
    BY TypeParts
  <1>1. ASSUME NEW a \in Adapter, OpenFails(a) PROVE UNCHANGED schema /\ Left
    BY <1>0, <1>1 DEF OpenFails, GiveUp, SchemaTypeOK
  <1>2. ASSUME NEW p \in Process, NEW a \in Adapter \cup {None},
               RegisterStorageAdapter(p, a)
        PROVE  UNCHANGED schema /\ Left
    BY <1>0, <1>2 DEF RegisterStorageAdapter, SchemaTypeOK
  <1>3. ASSUME NEW p \in Process, CloseAll(p) PROVE UNCHANGED schema /\ Left
    BY <1>0, <1>3 DEF CloseAll, SchemaTypeOK
  <1>4. ASSUME NEW p \in Process, Crash(p) PROVE UNCHANGED schema /\ Left
    <2>1. UNCHANGED schema
      BY <1>4 DEF Crash
    <2>2. ASSUME NEW a \in Adapter
          PROVE  \/ phase'[a] = phase[a] /\ pending'[a] = pending[a]
                 \/ phase'[a] \in {"unopened", "closed", "reclosed"}
      BY <1>4 DEF Crash
    <2> QED
      BY <2>1, <2>2
  <1>5. ASSUME NEW a \in Adapter, CleanupOldRecords(a) PROVE UNCHANGED schema /\ Left
    BY <1>5 DEF CleanupOldRecords
  <1>6. ASSUME NEW p \in Process, PickUp(p) PROVE UNCHANGED schema /\ Left
    BY <1>6 DEF PickUp
  <1>7. ASSUME NEW r \in Record, HandOver(r) \/ ActivityStep(r) \/ Expire(r)
        PROVE  UNCHANGED schema /\ Left
    BY <1>7 DEF HandOver, ActivityStep, Expire, LookUp, LookUpNothing, Invalid,
                Attempt, Insert, InsertRefused, InsertFails, Interrupted, Retry
  <1>8. CASE CompleteTask \/ UNCHANGED vars
    BY <1>8 DEF CompleteTask, vars
  <1> QED
    BY <1>1, <1>2, <1>3, <1>4, <1>5, <1>6, <1>7, <1>8 DEF Next, Opening

\* Of the schema, nothing is taken back; what an opening does to the others is
\* no more than that.
LEMMA OpenStepFrame ==
  ASSUME SchemaTypeOK, NEW a \in Adapter, OpenStep(a)
  PROVE  /\ recorded \subseteq recorded' /\ tables \subseteq tables'
         /\ indexes \subseteq indexes' /\ recorded' \subseteq Version
         /\ \A b \in Adapter \ {a} : phase'[b] = phase[b] /\ pending'[b] = pending[b]
  BY DEF SchemaTypeOK, OpenStep, Connect, ApplyMigration, RecordMigration,
         PrepareStatements, OpenRefused, GiveUp, schema, NextVersion, Version

LEMMA OpenStepMigrates ==
  ASSUME SchemaTypeOK, MigrationInv, NEW a \in Adapter, OpenStep(a)
  PROVE  OpeningInv(a)' /\ RecordedDone'
  <1>1. OpeningInv(a) /\ RecordedDone
    BY DEF MigrationInv
  <1>2. CASE Connect(a) \/ OpenRefused(a)
    BY <1>1, <1>2 DEF Connect, OpenRefused, GiveUp, SchemaTypeOK, OpeningInv,
                      RecordedDone, schema
  <1>3. CASE ApplyMigration(a)
    <2>1. pending[a] # {} /\ pending' = pending /\ recorded' = recorded
      BY <1>3 DEF ApplyMigration
    <2>2. phase'[a] = "recording" /\ phase[a] = "migrating"
      BY <1>3 DEF ApplyMigration, SchemaTypeOK
    <2>3. CASE 1 \in pending[a]
      BY <1>1, <1>3, <2>1, <2>2, <2>3
         DEF ApplyMigration, NextVersion, OpeningInv, RecordedDone
    <2>4. CASE 1 \notin pending[a]
      BY <1>1, <1>3, <2>1, <2>2, <2>4
         DEF ApplyMigration, NextVersion, OpeningInv, RecordedDone
    <2> QED
      BY <2>3, <2>4
  <1>4. CASE RecordMigration(a)
    <2>1. /\ phase'[a] = "migrating" /\ phase[a] = "recording"
          /\ pending'[a] = pending[a] \ {NextVersion(a)}
          /\ recorded' = recorded \cup {NextVersion(a)}
          /\ UNCHANGED <<tables, indexes>>
      BY <1>4 DEF RecordMigration, SchemaTypeOK
    <2>2. OpeningInv(a)'
      BY <1>1, <2>1 DEF OpeningInv
    <2>3. RecordedDone'
      BY <1>1, <2>1 DEF OpeningInv, RecordedDone, NextVersion
    <2> QED
      BY <2>2, <2>3
  <1>5. CASE PrepareStatements(a)
    <2>1. /\ phase'[a] = "open" /\ phase[a] = "migrating" /\ pending[a] = {}
          /\ TablePrefix[a] \in tables /\ UNCHANGED schema
      BY <1>5 DEF PrepareStatements, SchemaTypeOK
    <2>2. recorded = Version
      BY <1>1, <2>1 DEF OpeningInv, SchemaTypeOK
    <2> QED
      BY <1>1, <2>1, <2>2 DEF OpeningInv, RecordedDone, schema
  <1> QED
    BY <1>2, <1>3, <1>4, <1>5 DEF OpenStep

LEMMA NextMigrates ==
  ASSUME TypeOK, MigrationInv, [Next]_vars
  PROVE  MigrationInv'
  <1>0. SchemaTypeOK
    BY TypeParts
  <1>1. ASSUME NEW a \in Adapter, OpenStep(a) PROVE MigrationInv'
    <2>1. ASSUME NEW b \in Adapter \ {a} PROVE OpeningInv(b)'
      <3>1. OpeningInv(b)
        BY DEF MigrationInv
      <3> QED
        BY <1>0, <1>1, <3>1, OpenStepFrame DEF OpeningInv
    <2> QED
      BY <1>0, <1>1, <2>1, OpenStepMigrates DEF MigrationInv
  <1>2. ASSUME UNCHANGED schema,
               \A a \in Adapter : \/ phase'[a] = phase[a] /\ pending'[a] = pending[a]
                                  \/ phase'[a] \in {"unopened", "closed", "reclosed"}
        PROVE  MigrationInv'
    BY <1>2 DEF MigrationInv, OpeningInv, RecordedDone, schema
  <1> QED
    BY <1>1, <1>2, SchemaStep

LEMMA MigrationHolds == Spec => [](TypeOK /\ MigrationInv)
  <1>1. Init => MigrationInv
    BY DEF Init, InitMigrations, MigrationInv, OpeningInv, RecordedDone, Version
  <1>2. TypeOK /\ MigrationInv /\ [Next]_vars => MigrationInv'
    BY NextMigrates
  <1> QED
    BY <1>1, <1>2, StorageTypeCorrect, PTL DEF Spec

\* However many openings race, fail and are cut short, an open adapter has its
\* table and every recorded migration was applied.
THEOREM StorageOpenIsMigrated == Spec => []OpenIsMigrated
  <1>1. TypeOK /\ MigrationInv => OpenIsMigrated
    BY DEF MigrationInv, OpeningInv, RecordedDone, OpenIsMigrated
  <1> QED
    BY <1>1, MigrationHolds, PTL

\* With one table prefix, an opening is refused only when another one has recorded
\* the very migration it was about to record, which starting over cures.  It is
\* the shared schema_migrations that lets a database refuse a second prefix for
\* ever: its versions say nothing of whose tables exist.
OnlyRacesRefuse ==
  \A a \in Adapter : Refused(a) =>
    phase[a] = "recording" /\ NextVersion(a) \in recorded

THEOREM StorageOnlyRacesRefuse ==
  ASSUME \A a, b \in Adapter : TablePrefix[a] = TablePrefix[b]
  PROVE  Spec => []OnlyRacesRefuse
  <1>1. TypeOK /\ MigrationInv => OnlyRacesRefuse
    <2> SUFFICES ASSUME TypeOK, MigrationInv, NEW a \in Adapter, Refused(a)
                 PROVE  phase[a] = "recording" /\ NextVersion(a) \in recorded
      BY DEF OnlyRacesRefuse
    <2>1. SchemaTypeOK /\ OpeningInv(a) /\ RecordedDone
      BY TypeParts DEF MigrationInv
    <2>2. tables # {} => TablePrefix[a] \in tables
      BY <2>1 DEF SchemaTypeOK, Prefix
    <2>3. ASSUME phase[a] = "migrating", 1 \notin pending[a]
          PROVE  TablePrefix[a] \in tables
      BY <2>1, <2>2, <2>3 DEF OpeningInv, RecordedDone, Version
    <2>4. phase[a] = "migrating" /\ ~Applicable(a) =>
            1 \notin pending[a] /\ TablePrefix[a] \notin tables
      BY DEF Applicable, NextVersion
    <2> QED
      BY <2>3, <2>4 DEF Refused
  <1> QED
    BY <1>1, MigrationHolds, PTL

-----------------------------------------------------------------------------
(***************************************************************************)
(* A registered adapter is open, or was registered again.                  *)
(***************************************************************************)
LEMMA NextRegistered ==
  ASSUME TypeOK, RegisteredIsOpen, [Next]_vars
  PROVE  RegisteredIsOpen'
  <1> USE DEF RegisteredIsOpen, HasStorageAdapter, opening
  <1>0. SchemaTypeOK /\ StoreTypeOK
    BY TypeParts
  <1>1. ASSUME NEW a \in Adapter, Opening(a) PROVE RegisteredIsOpen'
    <2>1. /\ phase[a] \notin {"open", "reclosed"} /\ adapters' = adapters
          /\ \A b \in Adapter \ {a} : phase'[b] = phase[b]
      BY <1>0, <1>1, OpenStepFrame
         DEF Opening, OpenStep, Connect, ApplyMigration, RecordMigration,
             PrepareStatements, OpenRefused, Refused, OpenFails, GiveUp, SchemaTypeOK
    <2> QED
      BY <1>0, <2>1 DEF StoreTypeOK
  <1>2. ASSUME NEW p \in Process, NEW a \in Adapter \cup {None},
               RegisterStorageAdapter(p, a)
        PROVE  RegisteredIsOpen'
    <2>1. ASSUME NEW q \in Process \ {p}, adapters'[q] # None
          PROVE  /\ phase'[adapters'[q]] \in {"open", "reclosed"}
                 /\ Home[adapters'[q]] = q
      <3>1. /\ adapters'[q] = adapters[q] /\ adapters[q] \in Adapter
            /\ phase[adapters[q]] \in {"open", "reclosed"} /\ Home[adapters[q]] = q
        BY <1>0, <1>2, <2>1 DEF RegisterStorageAdapter, StoreTypeOK
      <3>2. adapters[p] # adapters[q] \/ adapters[p] = None
        BY <3>1
      <3> QED
        BY <1>0, <1>2, <3>1, <3>2 DEF RegisterStorageAdapter, SchemaTypeOK
    <2>2. ASSUME adapters'[p] # None
          PROVE  /\ phase'[adapters'[p]] \in {"open", "reclosed"}
                 /\ Home[adapters'[p]] = p
      <3>1. /\ adapters'[p] = a /\ a \in Adapter /\ Home[a] = p
            /\ phase[a] = "open"
        BY <1>0, <1>2, <2>2 DEF RegisterStorageAdapter, StoreTypeOK
      <3> QED
        BY <1>0, <1>2, <3>1 DEF RegisterStorageAdapter, SchemaTypeOK
    <2> QED
      BY <2>1, <2>2
  <1>3. ASSUME NEW p \in Process, CloseAll(p) PROVE RegisteredIsOpen'
    <2>1. ASSUME NEW q \in Process, adapters'[q] # None
          PROVE  /\ phase'[adapters'[q]] \in {"open", "reclosed"}
                 /\ Home[adapters'[q]] = q
      <3>1. /\ q # p /\ adapters'[q] = adapters[q] /\ adapters[q] \in Adapter
            /\ phase[adapters[q]] \in {"open", "reclosed"} /\ Home[adapters[q]] = q
            /\ Home[adapters[p]] = p
        BY <1>0, <1>3, <2>1 DEF CloseAll, StoreTypeOK
      <3> QED
        BY <1>0, <1>3, <3>1 DEF CloseAll, SchemaTypeOK
    <2> QED
      BY <2>1
  <1>4. ASSUME NEW p \in Process, Crash(p) PROVE RegisteredIsOpen'
    <2>1. adapters' = [adapters EXCEPT ![p] = None]
      BY <1>4 DEF Crash
    <2>2. phase' = [a \in Adapter |-> IF Home[a] = p THEN "unopened" ELSE phase[a]]
      BY <1>4 DEF Crash
    <2> QED
      BY <1>0, <2>1, <2>2 DEF StoreTypeOK
  <1>5. ASSUME NEW a \in Adapter, CleanupOldRecords(a) PROVE RegisteredIsOpen'
    BY <1>5 DEF CleanupOldRecords
  <1>6. ASSUME NEW p \in Process, PickUp(p) PROVE RegisteredIsOpen'
    BY <1>6 DEF PickUp
  <1>7. ASSUME NEW r \in Record, HandOver(r) \/ ActivityStep(r) \/ Expire(r)
        PROVE  RegisteredIsOpen'
    <2>1. UNCHANGED <<phase, adapters>>
      BY <1>7 DEF HandOver, ActivityStep, Expire, LookUp, LookUpNothing, Invalid,
                  Attempt, Insert, InsertRefused, InsertFails, Interrupted, Retry
    <2> QED
      BY <2>1
  <1>8. CASE CompleteTask \/ UNCHANGED vars
    BY <1>8 DEF CompleteTask, vars
  <1> QED
    BY <1>1, <1>2, <1>3, <1>4, <1>5, <1>6, <1>7, <1>8 DEF Next

\* What a process has registered is an adapter of its own that nobody closed but by
\* registering it again.
THEOREM StorageRegisteredIsOpen == Spec => []RegisteredIsOpen
  <1>1. Init => RegisteredIsOpen
    BY DEF Init, RegisteredIsOpen, HasStorageAdapter
  <1>2. TypeOK /\ RegisteredIsOpen /\ [Next]_vars => RegisteredIsOpen'
    BY NextRegistered
  <1> QED
    BY <1>1, <1>2, StorageTypeCorrect, PTL DEF Spec

-----------------------------------------------------------------------------
(***************************************************************************)
(* What is reported stored is stored.                                      *)
(***************************************************************************)

\* An activity has an adapter from its look-up on, is answered when it ends or
\* expires and at no other time, and what is history has been answered.
Underway(r) ==
  /\ goroutine[r] \in {"idle", "started"} => storageAdapter[r] = None
  /\ goroutine[r] \in {"storing", "waiting"} => storageAdapter[r] \in Adapter
  /\ Running(r) => answer[r] \in {"awaited", "timeout"}
  /\ answer[r] = "none" => goroutine[r] = "idle"
  /\ r \in history => answer[r] \notin {"none", "awaited"}

Stored(r) ==
  answer[r] = "success" /\ storageAdapter[r] # None =>
    r \in cleaned \cup rows[TablePrefix[storageAdapter[r]]]

ActivityInv == \A r \in Record : Underway(r) /\ Stored(r)

\* What no step of the record's own activity touches stays as it was.
LEMMA OtherActivity ==
  ASSUME TypeOK, [Next]_vars, NEW r \in Record, Underway(r), Stored(r),
         goroutine'[r] = goroutine[r], storageAdapter'[r] = storageAdapter[r],
         answer'[r] = answer[r], r \in history' => r \in history
  PROVE  Underway(r)' /\ Stored(r)'
  <1>1. Underway(r)'
    BY DEF Underway, Running
  <1>2. ASSUME answer[r] = "success", storageAdapter[r] # None
        PROVE  r \in cleaned' \cup rows'[TablePrefix[storageAdapter[r]]]
    <2>1. TablePrefix[storageAdapter[r]] \in Prefix
      BY <1>2 DEF TypeOK, Prefix
    <2> QED
      BY <1>2, <2>1, RowsKept DEF Stored, Kept
  <1> QED
    BY <1>1, <1>2 DEF Stored

\* A step of the activity of r.
OnlyOf(r) == \A q \in Record \ {r} :
  /\ goroutine'[q] = goroutine[q] /\ storageAdapter'[q] = storageAdapter[q]
  /\ answer'[q] = answer[q]

LEMMA EndsOnly ==
  ASSUME ActivityTypeOK, NEW r \in Record, NEW result \in {"success", "failure"},
         Ends(r, result), UNCHANGED storageAdapter
  PROVE  /\ OnlyOf(r) /\ goroutine'[r] = "ended"
         /\ answer'[r] = IF answer[r] = "awaited" THEN result ELSE answer[r]
  BY DEF Ends, ActivityTypeOK, OnlyOf

LEMMA ActivityStepStores ==
  ASSUME TypeOK, RunsSomewhere, NEW r \in Record, Underway(r), Stored(r),
         ActivityStep(r)
  PROVE  OnlyOf(r) /\ UNCHANGED history /\ Underway(r)' /\ Stored(r)'
  <1> USE DEF workflowVars
  <1>0. ActivityTypeOK /\ StoreTypeOK
    BY TypeParts
  <1>1. CASE LookUp(r)
    <2>1. worker \in Process
      BY <1>0, <1>1 DEF LookUp, RunsSomewhere, Running, StoreTypeOK
    <2>2. adapters[worker] \in Adapter
      BY <1>0, <1>1, <2>1 DEF LookUp, HasStorageAdapter, StoreTypeOK
    <2>3. /\ goroutine[r] = "started" /\ goroutine'[r] = "storing"
          /\ storageAdapter'[r] = adapters[worker]
          /\ OnlyOf(r) /\ UNCHANGED <<answer, history>>
      BY <1>0, <1>1 DEF LookUp, ActivityTypeOK, OnlyOf
    <2>4. answer[r] \in {"awaited", "timeout"}
      BY <2>3 DEF Underway, Running
    <2> QED
      BY <2>2, <2>3, <2>4 DEF Underway, Stored, Running
  <1>2. CASE LookUpNothing(r)
    <2>1. /\ goroutine[r] = "started" /\ UNCHANGED <<storageAdapter, history>>
          /\ OnlyOf(r) /\ goroutine'[r] = "ended"
          /\ answer'[r] = IF answer[r] = "awaited" THEN "success" ELSE answer[r]
      BY <1>0, <1>2, EndsOnly DEF LookUpNothing
    <2> QED
      BY <2>1 DEF Underway, Stored, Running
  <1>3. ASSUME goroutine[r] \in {"storing", "waiting"}, Ends(r, "failure"),
               UNCHANGED <<storageAdapter, history>>
        PROVE  OnlyOf(r) /\ UNCHANGED history /\ Underway(r)' /\ Stored(r)'
    <2>1. /\ OnlyOf(r) /\ goroutine'[r] = "ended"
          /\ answer'[r] = IF answer[r] = "awaited" THEN "failure" ELSE answer[r]
      BY <1>0, <1>3, EndsOnly
    <2> QED
      BY <1>3, <2>1 DEF Underway, Stored, Running
  <1>4. CASE Insert(r)
    <2>1. /\ goroutine[r] = "storing" /\ UNCHANGED <<storageAdapter, history>>
          /\ OnlyOf(r) /\ goroutine'[r] = "ended"
          /\ answer'[r] = IF answer[r] = "awaited" THEN "success" ELSE answer[r]
      BY <1>0, <1>4, EndsOnly DEF Insert
    <2>2. storageAdapter[r] \in Adapter
      BY <2>1 DEF Underway
    <2>3. r \in rows'[TablePrefix[storageAdapter[r]]]
      BY <1>0, <1>4, <2>2 DEF Insert, Inserted, StoreTypeOK, Prefix
    <2> QED
      BY <2>1, <2>3 DEF Underway, Stored, Running
  <1>5. CASE InsertFails(r)
    <2>1. CASE attempt[r] < MaxRetries
      <3>1. /\ goroutine[r] = "storing" /\ goroutine'[r] = "waiting"
            /\ UNCHANGED <<storageAdapter, answer, history>> /\ OnlyOf(r)
        BY <1>0, <1>5, <2>1 DEF InsertFails, TryAgain, ActivityTypeOK, OnlyOf
      <3> QED
        BY <3>1 DEF Underway, Stored, Running
    <2>2. CASE ~(attempt[r] < MaxRetries)
      BY <1>3, <1>5, <2>2 DEF InsertFails, TryAgain
    <2> QED
      BY <2>1, <2>2
  <1>6. CASE Retry(r)
    <2>1. /\ goroutine[r] = "waiting" /\ goroutine'[r] = "storing"
          /\ UNCHANGED <<storageAdapter, answer, history>> /\ OnlyOf(r)
      BY <1>0, <1>6 DEF Retry, ActivityTypeOK, OnlyOf
    <2> QED
      BY <2>1 DEF Underway, Stored, Running
  <1>7. CASE Invalid(r) \/ InsertRefused(r) \/ Interrupted(r)
    BY <1>3, <1>7 DEF Invalid, InsertRefused, Interrupted
  <1> QED
    BY <1>1, <1>2, <1>4, <1>5, <1>6, <1>7 DEF ActivityStep, Attempt

LEMMA NextStores ==
  ASSUME TypeOK, RunsSomewhere, ActivityInv, [Next]_vars
  PROVE  ActivityInv'
  <1> USE DEF activity, workflowVars
  <1>0. ActivityTypeOK /\ StoreTypeOK
    BY TypeParts
  <1>1. CASE UNCHANGED <<goroutine, storageAdapter, answer, history>>
    BY <1>1, OtherActivity DEF ActivityInv
  <1>2. ASSUME NEW r \in Record, OnlyOf(r), UNCHANGED history,
               Underway(r)' /\ Stored(r)'
        PROVE  ActivityInv'
    BY <1>2, OtherActivity DEF ActivityInv, OnlyOf
  <1>3. ASSUME NEW a \in Adapter, Opening(a) \/ CleanupOldRecords(a)
        PROVE  ActivityInv'
    BY <1>1, <1>3 DEF Opening, CleanupOldRecords
  <1>4. ASSUME NEW p \in Process,
               \/ \E a \in Adapter \cup {None} : RegisterStorageAdapter(p, a)
               \/ CloseAll(p) \/ PickUp(p)
        PROVE  ActivityInv'
    BY <1>1, <1>4 DEF RegisterStorageAdapter, CloseAll, PickUp
  <1>5. ASSUME NEW p \in Process, Crash(p) PROVE ActivityInv'
    <2>1. CASE worker # p
      BY <1>1, <1>5, <2>1 DEF Crash
    <2>2. ASSUME worker = p, NEW r \in Record PROVE Underway(r)' /\ Stored(r)'
      <3>1. Underway(r) /\ Stored(r)
        BY DEF ActivityInv
      <3>2. UNCHANGED <<rows, cleaned, history>>
        BY <1>5 DEF Crash, tableVars
      <3>3. CASE r \in history
        <4>1. /\ goroutine'[r] = "ended" /\ storageAdapter'[r] = storageAdapter[r]
              /\ answer'[r] = answer[r]
          BY <1>5, <2>2, <3>3 DEF Crash
        <4> QED
          BY <3>1, <3>2, <3>3, <4>1 DEF Underway, Stored, Running
      <3>4. CASE r \notin history
        <4>1. goroutine'[r] = "idle" /\ storageAdapter'[r] = None /\ answer'[r] = "none"
          BY <1>5, <2>2, <3>4 DEF Crash
        <4> QED
          BY <3>2, <3>4, <4>1 DEF Underway, Stored, Running
      <3> QED
        BY <3>3, <3>4
    <2> QED
      BY <2>1, <2>2 DEF ActivityInv
  <1>6. ASSUME NEW r \in Record, HandOver(r) PROVE ActivityInv'
    <2>1. /\ answer[r] = "none" /\ answer'[r] \in {"awaited", "skipped"}
          /\ goroutine'[r] = IF answer'[r] = "awaited" THEN "started" ELSE goroutine[r]
          /\ UNCHANGED <<storageAdapter, history>> /\ OnlyOf(r)
      BY <1>0, <1>6 DEF HandOver, ActivityTypeOK, OnlyOf
    <2>2. Underway(r)
      BY DEF ActivityInv
    <2>3. Underway(r)' /\ Stored(r)'
      BY <2>1, <2>2 DEF Underway, Stored, Running
    <2> QED
      BY <1>2, <2>1, <2>3
  <1>7. ASSUME NEW r \in Record, Expire(r) PROVE ActivityInv'
    <2>1. /\ Running(r) /\ answer'[r] = "timeout"
          /\ UNCHANGED <<goroutine, storageAdapter, history>> /\ OnlyOf(r)
      BY <1>0, <1>7 DEF Expire, ActivityTypeOK, OnlyOf
    <2>2. Underway(r)
      BY DEF ActivityInv
    <2>3. Underway(r)' /\ Stored(r)'
      BY <2>1, <2>2 DEF Underway, Stored, Running
    <2> QED
      BY <1>2, <2>1, <2>3
  <1>8. ASSUME NEW r \in Record, ActivityStep(r) PROVE ActivityInv'
    BY <1>2, <1>8, ActivityStepStores DEF ActivityInv
  <1>9. CASE CompleteTask
    <2>1. /\ history' = {r \in Record : answer[r] \notin {"none", "awaited"}}
          /\ UNCHANGED <<tableVars, activity, answer>>
      BY <1>9 DEF CompleteTask
    <2> QED
      BY <2>1 DEF ActivityInv, Underway, Stored, Running, tableVars
  <1>10. CASE UNCHANGED vars
    BY <1>1, <1>10 DEF vars
  <1> QED
    BY <1>3, <1>4, <1>5, <1>6, <1>7, <1>8, <1>9, <1>10 DEF Next

\* A record whose activity reports success is in the table of the adapter the
\* activity found, or has been cleaned up.
THEOREM StorageSuccessIsStored == Spec => []SuccessIsStored
  <1>1. Init => ActivityInv
    BY DEF Init, ActivityInv, Underway, Stored, Running
  <1>2. StorageTypes /\ ActivityInv /\ [Next]_vars => ActivityInv'
    BY NextStores DEF StorageTypes
  <1>3. ActivityInv => SuccessIsStored
    BY DEF ActivityInv, Stored, SuccessIsStored
  <1> QED
    BY <1>1, <1>2, <1>3, StorageTyped, PTL DEF Spec

-----------------------------------------------------------------------------
(***************************************************************************)
(* The abstract store.                                                     *)
(***************************************************************************)
Reported == {r \in history : answer[r] = "success" /\ storageAdapter[r] # None}

\* An activity whose record the history calls stored is over, and one the history
\* knows of otherwise has no say any more.
LEMMA ActivityReportsNothing ==
  ASSUME TypeOK, RunsSomewhere, ActivityInv, NEW r \in Record, ActivityStep(r)
  PROVE  Reported' = Reported
  <1>0. ActivityTypeOK
    BY TypeParts
  <1>1. OnlyOf(r) /\ UNCHANGED history
    BY ActivityStepStores DEF ActivityInv
  <1>2. Running(r)
    BY DEF ActivityStep, Attempt, LookUp, LookUpNothing, Invalid, Insert,
           InsertRefused, InsertFails, Interrupted, Retry, Running
  <1>3. r \in history => answer[r] = "timeout"
    BY <1>2 DEF ActivityInv, Underway
  <1>4. answer[r] = "timeout" => answer'[r] = "timeout"
    BY <1>0 DEF ActivityStep, Attempt, LookUp, LookUpNothing, Invalid, Insert,
           InsertRefused, InsertFails, Interrupted, Retry, TryAgain, Ends,
           workflowVars
  <1>5. \A q \in Record : q \in Reported' <=> q \in Reported
    <2>1. CASE r \in history
      BY <1>1, <1>3, <1>4, <2>1 DEF Reported, OnlyOf
    <2>2. CASE r \notin history
      BY <1>1, <2>2 DEF Reported, OnlyOf
    <2> QED
      BY <2>1, <2>2
  <1> QED
    BY <1>0, <1>1, <1>5 DEF Reported, ActivityTypeOK

\* What is reported stays reported, and more of it only with a workflow task.
LEMMA ReportedStep ==
  ASSUME TypeOK, RunsSomewhere, ActivityInv, [Next]_vars
  PROVE  \/ Reported' = Reported
         \/ /\ CompleteTask
            /\ Reported \subseteq Reported'
  <1>0. ActivityTypeOK
    BY TypeParts
  <1> USE DEF activity, workflowVars
  <1>1. CASE UNCHANGED <<storageAdapter, answer, history>>
    BY <1>1 DEF Reported
  <1>2. ASSUME NEW a \in Adapter, Opening(a) \/ CleanupOldRecords(a)
        PROVE  UNCHANGED <<storageAdapter, answer, history>>
    BY <1>2 DEF Opening, CleanupOldRecords
  <1>3. ASSUME NEW p \in Process,
               \/ \E a \in Adapter \cup {None} : RegisterStorageAdapter(p, a)
               \/ CloseAll(p) \/ PickUp(p)
        PROVE  UNCHANGED <<storageAdapter, answer, history>>
    BY <1>3 DEF RegisterStorageAdapter, CloseAll, PickUp
  <1>4. ASSUME NEW p \in Process, Crash(p) PROVE Reported' = Reported
    <2>1. history' = history
      BY <1>4 DEF Crash
    <2>2. \A r \in history :
            r \in Record /\ answer'[r] = answer[r] /\ storageAdapter'[r] = storageAdapter[r]
      BY <1>0, <1>4 DEF Crash, ActivityTypeOK
    <2> QED
      BY <2>1, <2>2 DEF Reported
  <1>5. ASSUME NEW r \in Record, HandOver(r) \/ Expire(r)
        PROVE  Reported' = Reported
    <2>1. UNCHANGED <<storageAdapter, history>>
      BY <1>5 DEF HandOver, Expire
    <2>2. \A q \in Record \ {r} : answer'[q] = answer[q]
      BY <1>0, <1>5 DEF HandOver, Expire, ActivityTypeOK
    <2>3. answer'[r] # "success" /\ answer[r] # "success"
      BY <1>0, <1>5 DEF HandOver, Expire, ActivityTypeOK, ActivityInv, Underway
    <2>4. history \subseteq Record
      BY <1>0 DEF ActivityTypeOK
    <2> QED
      BY <2>1, <2>2, <2>3, <2>4 DEF Reported
  <1>6. ASSUME NEW r \in Record, ActivityStep(r) PROVE Reported' = Reported
    BY <1>6, ActivityReportsNothing
  <1>7. CASE CompleteTask
    <2>1. history \subseteq history' /\ UNCHANGED <<storageAdapter, answer>>
      BY <1>0, <1>7 DEF CompleteTask, ActivityInv, Underway, ActivityTypeOK
    <2> QED
      BY <1>7, <2>1 DEF Reported
  <1>8. CASE UNCHANGED vars
    BY <1>1, <1>8 DEF vars
  <1> QED
    BY <1>1, <1>2, <1>3, <1>4, <1>5, <1>6, <1>7, <1>8 DEF Next

StoreInv == StorageTypes /\ ActivityInv

LEMMA NextIsStoreStep ==
  ASSUME StoreInv, [Next]_vars
  PROVE  [Store!Next]_(Store!vars)
  <1>0. /\ TypeOK /\ RunsSomewhere /\ ActivityInv
        /\ StoreTypeOK /\ ActivityTypeOK
    BY TypeParts DEF StoreInv, StorageTypes
  <1> USE DEF tableVars
  \* What a workflow task reports is in a table, or was.
  <1>1. CASE CompleteTask
    <2>1. UNCHANGED <<rows, cleaned, answer, storageAdapter>>
      BY <1>1 DEF CompleteTask, activity
    <2>2. \A r \in Reported' :
            /\ r \in Record
            /\ r \in cleaned \cup UNION {rows[t] : t \in Prefix}
      <3> SUFFICES ASSUME NEW r \in Reported'
                   PROVE  r \in Record /\ r \in cleaned \cup UNION {rows[t] : t \in Prefix}
        OBVIOUS
      <3>1. r \in Record /\ answer[r] = "success" /\ storageAdapter[r] # None
        BY <1>1, <2>1 DEF Reported, CompleteTask
      <3>2. TablePrefix[storageAdapter[r]] \in Prefix
        BY <1>0, <3>1 DEF ActivityTypeOK, Prefix
      <3>3. r \in cleaned \cup rows[TablePrefix[storageAdapter[r]]]
        BY <1>0, <3>1 DEF ActivityInv, Stored
      <3> QED
        BY <3>1, <3>2, <3>3
    <2>3. Reported' = Reported \cup Reported'
      BY <1>0, ReportedStep
    <2>4. PICK stored : stored = Reported'
      OBVIOUS
    <2>5. stored \in SUBSET Record
      BY <2>2, <2>4
    <2>6. Store!Report(stored)
      BY <2>1, <2>2, <2>3, <2>4 DEF Store!Report, Reported
    <2> QED
      BY <2>5, <2>6 DEF Store!Next
  <1>2. CASE Reported' = Reported
    <2>1. CASE UNCHANGED tableVars
      BY <1>2, <2>1 DEF Store!vars, Reported
    <2>2. ASSUME NEW r \in Record, goroutine[r] = "storing", Inserted(r),
                 cleaned' = cleaned
          PROVE  Store!Next
      <3>1. TablePrefix[storageAdapter[r]] \in Prefix
        BY <1>0, <2>2 DEF ActivityInv, Underway, Prefix
      <3>2. Store!Insert(TablePrefix[storageAdapter[r]], r)
        BY <1>2, <2>2 DEF Store!Insert, Inserted, Occupied, Reported
      <3> QED
        BY <3>1, <3>2 DEF Store!Next
    <2>3. ASSUME NEW a \in Adapter, CleanupOldRecords(a) PROVE Store!Next
      <3>1. PICK old \in SUBSET rows[TablePrefix[a]] \ {{}} :
              /\ rows' = [rows EXCEPT ![TablePrefix[a]] = @ \ old]
              /\ cleaned' = cleaned \cup old
        BY <2>3 DEF CleanupOldRecords
      <3>2. TablePrefix[a] \in Prefix /\ old \in SUBSET rows[TablePrefix[a]]
        BY DEF Prefix
      <3>3. Store!Cleanup(TablePrefix[a], old)
        BY <1>2, <3>1 DEF Store!Cleanup, Reported
      <3> QED
        BY <3>2, <3>3 DEF Store!Next
    <2> QED
      BY <1>0, <2>1, <2>2, <2>3, RowsStep
  <1> QED
    BY <1>0, <1>1, <1>2, ReportedStep

\* The rows an entity finds are of one table of one database.
LEMMA InitStore == Init => Store!Init
  <1> SUFFICES ASSUME Init PROVE Store!Init
    OBVIOUS
  <1>1. rows = [x \in Prefix |-> IF x \in tables THEN Earlier ELSE {}]
    BY DEF Init
  <1>2. rows \in [Prefix -> SUBSET Record] /\ Store!KeysUnique
    BY <1>1 DEF Store!KeysUnique
  <1>3. cleaned = {} /\ Reported = {}
    BY DEF Init, Reported
  <1> QED
    BY <1>2, <1>3 DEF Store!Init, Reported

LEMMA StoreTyped == Spec => []StoreInv
  <1>1. Init => ActivityInv
    BY DEF Init, ActivityInv, Underway, Stored, Running
  <1>2. StorageTypes /\ ActivityInv /\ [Next]_vars => ActivityInv'
    BY NextStores DEF StorageTypes
  <1> QED
    BY <1>1, <1>2, StorageTyped, PTL DEF Spec, StoreInv

\* Registry, activity and adapter together are a store: one row under a key until
\* it is cleaned up, and the history calls stored what was.
THEOREM StorageImplementsRecordStore == Spec => ImplementsRecordStore
  <1>1. StoreInv /\ [Next]_vars => [Store!Next]_(Store!vars)
    BY NextIsStoreStep
  <1> QED
    BY <1>1, InitStore, StoreTyped, PTL DEF Spec, ImplementsRecordStore, Store!Spec
===============================================================================
