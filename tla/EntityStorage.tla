----------------------------- MODULE EntityStorage -----------------------------
(***************************************************************************)
(* The records of entity updates on their way to a database: the registry  *)
(* of storage adapters of each worker process (storage/registry.go), the   *)
(* activity that stores a record (activities/storage_activities.go) and    *)
(* the SQLite adapter (storage/sqlite), for one entity type and one run.   *)
(*                                                                         *)
(* The activity is a goroutine: between its look-up of the adapter, its    *)
(* attempts to insert and the end of its deadline, the application may     *)
(* replace or close the adapter and the process may die.                   *)
(***************************************************************************)
EXTENDS Migrations, FiniteSets

CONSTANTS
  Process,     \* worker processes
  Home,        \* Adapter -> Process: where the adapter lives
  None,        \* no adapter, no process
  Record,      \* one for each update an engine has processed
  Earlier,     \* those of another incarnation of the entity, long ended: rows
               \* of one table
  Key,         \* entity id, entity type, sequence number
  recordKey,   \* Record -> Key: the primary key; an entity that is started
               \* anew counts from 1 again
  MaxRetries   \* config.MaxRetries, 3 by default

ASSUME StorageAssumption ==
  /\ Home \in [Adapter -> Process]
  /\ None \notin Adapter /\ None \notin Process
  /\ recordKey \in [Record -> Key]
  /\ Earlier \subseteq Record
  /\ \A r, s \in Earlier : recordKey[r] = recordKey[s] => r = s
  /\ MaxRetries \in Nat

VARIABLES
  adapters,  \* the registry of each process, at the entity type
  rows,      \* the records table of each prefix
  cleaned,   \* history: the records CleanupOldRecords has removed
  worker,    \* the process the run is on
  goroutine, \* where the storage activity of each record is
  storageAdapter, \* the adapter each activity found
  attempt,   \* the attempts it has made before the present one
  answer,    \* what the workflow has of it
  history    \* records whose answer, or whose lack of a storage, is in the
             \* workflow's history

tableVars == <<rows, cleaned>>
activity == <<goroutine, storageAdapter, attempt>>
workflowVars == <<worker, answer, history>>
vars == <<schema, opening, faults, adapters, tableVars, activity, workflowVars>>

HasStorageAdapter(p) == adapters[p] # None
Running(r) == goroutine[r] \in {"started", "storing", "waiting"}
\* The context of the activity is done.
Expired(r) == answer[r] = "timeout"

Init ==
  /\ InitMigrations
  /\ adapters = [p \in Process |-> None]
  /\ rows = [x \in Prefix |-> IF x \in tables THEN Earlier ELSE {}]
  /\ cleaned = {}
  /\ worker \in Process
  /\ goroutine = [r \in Record |-> "idle"]
  /\ storageAdapter = [r \in Record |-> None]
  /\ attempt = [r \in Record |-> 0]
  /\ answer = [r \in Record |-> "none"]
  /\ history = {}

-------------------------------------------------------------------------------
(* The adapters of a process. *)

Opening(a) ==
  /\ OpenStep(a) \/ OpenFails(a)
  /\ UNCHANGED <<adapters, tableVars, activity, workflowVars>>

\* RegisterStorageAdapter closes the adapter it replaces; None unregisters.  The
\* application registers adapters that are open; one that is registered already
\* is closed and stays in the registry.
RegisterStorageAdapter(p, a) ==
  /\ a # None => Home[a] = p /\ phase[a] = "open"
  /\ phase' = IF HasStorageAdapter(p)
              THEN [phase EXCEPT ![adapters[p]] =
                      IF a = adapters[p] THEN "reclosed" ELSE "closed"]
              ELSE phase
  /\ adapters' = [adapters EXCEPT ![p] = a]
  /\ UNCHANGED <<schema, pending, faults, tableVars, activity, workflowVars>>

\* Slip: the map is not cleared.
CloseAllKept(p) ==
  /\ HasStorageAdapter(p)
  /\ phase' = [phase EXCEPT ![adapters[p]] = "closed"]
  /\ UNCHANGED <<schema, pending, faults, adapters, tableVars, activity,
                 workflowVars>>

CloseAll(p) ==
  /\ HasStorageAdapter(p)
  /\ phase' = [phase EXCEPT ![adapters[p]] = "closed"]
  /\ adapters' = [adapters EXCEPT ![p] = None]
  /\ UNCHANGED <<schema, pending, faults, tableVars, activity, workflowVars>>

\* Records processed before a cutoff are removed.
CleanupOldRecords(a) ==
  /\ phase[a] = "open"
  /\ \E old \in SUBSET rows[TablePrefix[a]] \ {{}} :
       /\ rows' = [rows EXCEPT ![TablePrefix[a]] = @ \ old]
       /\ cleaned' = cleaned \cup old
  /\ UNCHANGED <<schema, opening, faults, adapters, activity, workflowVars>>

-------------------------------------------------------------------------------
(* The activity. *)

\* The workflow has the engine's result and looks whether to store it.
HandOver(r) ==
  /\ worker # None
  /\ r \notin Earlier
  /\ answer[r] = "none"
  /\ IF HasStorageAdapter(worker)
     THEN /\ answer' = [answer EXCEPT ![r] = "awaited"]
          /\ goroutine' = [goroutine EXCEPT ![r] = "started"]
     ELSE /\ answer' = [answer EXCEPT ![r] = "skipped"]
          /\ UNCHANGED goroutine
  /\ UNCHANGED <<schema, opening, faults, adapters, tableVars,
                 storageAdapter, attempt, worker, history>>

\* The activity returns; after the deadline nobody reads what.
Ends(r, result) ==
  /\ goroutine' = [goroutine EXCEPT ![r] = "ended"]
  /\ attempt' = [attempt EXCEPT ![r] = 0]
  /\ answer' = IF answer[r] = "awaited" THEN [answer EXCEPT ![r] = result]
               ELSE answer

\* The adapter is looked up again, and kept.
LookUp(r) ==
  /\ goroutine[r] = "started"
  /\ HasStorageAdapter(worker)
  /\ storageAdapter' = [storageAdapter EXCEPT ![r] = adapters[worker]]
  /\ goroutine' = [goroutine EXCEPT ![r] = "storing"]
  /\ UNCHANGED <<schema, opening, faults, adapters, tableVars, attempt,
                 workflowVars>>

\* Not to find one is a success: no storage was expected.
LookUpNothing(r) ==
  /\ goroutine[r] = "started"
  /\ ~HasStorageAdapter(worker)
  /\ Ends(r, "success")
  /\ UNCHANGED <<schema, opening, faults, adapters, tableVars, storageAdapter,
                 worker, history>>

\* Before the first attempt the record is validated.  It has an id, a type and a
\* number; a state with no field set is serialized to no bytes, and refused.
Invalid(r) ==
  /\ goroutine[r] = "storing"
  /\ attempt[r] = 0
  /\ Ends(r, "failure")
  /\ UNCHANGED <<schema, opening, faults, adapters, tableVars, storageAdapter,
                 worker, history>>

\* Slip: the key takes in what differs from one incarnation to the next.
OccupiedByItself(r) == r \in rows[TablePrefix[storageAdapter[r]]]

\* The table of the adapter has a row under the key of the record.
Occupied(r) ==
  \E s \in rows[TablePrefix[storageAdapter[r]]] : recordKey[s] = recordKey[r]

Inserted(r) ==
  /\ phase[storageAdapter[r]] = "open"
  /\ ~Occupied(r)
  /\ rows' = [rows EXCEPT ![TablePrefix[storageAdapter[r]]] = @ \cup {r}]

\* Slip: the row that is there is replaced.
InsertOrReplace(r) ==
  /\ goroutine[r] = "storing"
  /\ phase[storageAdapter[r]] = "open"
  /\ rows' = [rows EXCEPT ![TablePrefix[storageAdapter[r]]] =
                {s \in @ : recordKey[s] # recordKey[r]} \cup {r}]
  /\ Ends(r, "success")
  /\ UNCHANGED <<schema, opening, faults, adapters, cleaned, storageAdapter,
                 worker, history>>

Insert(r) ==
  /\ goroutine[r] = "storing"
  /\ Inserted(r)
  /\ Ends(r, "success")
  /\ UNCHANGED <<schema, opening, faults, adapters, cleaned, storageAdapter,
                 worker, history>>

\* A row under the key, also the record's own from an attempt before, or a closed
\* adapter: errors that are not retried.
InsertRefused(r) ==
  /\ goroutine[r] = "storing"
  /\ phase[storageAdapter[r]] \in {"closed", "reclosed"} \/ Occupied(r)
  /\ Ends(r, "failure")
  /\ UNCHANGED <<schema, opening, faults, adapters, tableVars, storageAdapter,
                 worker, history>>

\* Slips: one attempt too many; the last error is forgotten when the attempts are
\* used up; attempts are not counted.
TryOnceMore(r) ==
  IF attempt[r] <= MaxRetries
  THEN /\ attempt' = [attempt EXCEPT ![r] = @ + 1]
       /\ goroutine' = [goroutine EXCEPT ![r] = "waiting"]
       /\ UNCHANGED answer
  ELSE Ends(r, "failure")

TryAgainThenSucceed(r) ==
  IF attempt[r] < MaxRetries
  THEN /\ attempt' = [attempt EXCEPT ![r] = @ + 1]
       /\ goroutine' = [goroutine EXCEPT ![r] = "waiting"]
       /\ UNCHANGED answer
  ELSE Ends(r, "success")

TryAgainForEver(r) ==
  /\ goroutine' = [goroutine EXCEPT ![r] = "waiting"]
  /\ UNCHANGED <<attempt, answer>>

\* The loop of attempts after an error that may be retried.
TryAgain(r) ==
  IF attempt[r] < MaxRetries
  THEN /\ attempt' = [attempt EXCEPT ![r] = @ + 1]
       /\ goroutine' = [goroutine EXCEPT ![r] = "waiting"]
       /\ UNCHANGED answer
  ELSE Ends(r, "failure")

\* The database is locked or busy; an I/O error may be reported of an insert that
\* took effect.
InsertFails(r) ==
  /\ goroutine[r] = "storing"
  /\ phase[storageAdapter[r]] = "open"
  /\ Inserted(r) \/ UNCHANGED rows
  /\ TryAgain(r)
  /\ UNCHANGED <<schema, opening, faults, adapters, cleaned, storageAdapter,
                 worker, history>>

\* The context is done: the attempt is interrupted, with or without effect, or
\* the wait ends.  Its error is not retried.
Interrupted(r) ==
  /\ Expired(r)
  /\ \/ goroutine[r] = "waiting" /\ UNCHANGED rows
     \/ goroutine[r] = "storing" /\ (Inserted(r) \/ UNCHANGED rows)
  /\ Ends(r, "failure")
  /\ UNCHANGED <<schema, opening, faults, adapters, cleaned, storageAdapter,
                 worker, history>>

\* The wait before the next attempt is over.
Retry(r) ==
  /\ goroutine[r] = "waiting"
  /\ goroutine' = [goroutine EXCEPT ![r] = "storing"]
  /\ UNCHANGED <<schema, opening, faults, adapters, tableVars, storageAdapter,
                 attempt, workflowVars>>

\* The deadline of the activity passes, and the workflow is told so.  The
\* goroutine goes on until it notices.
Expire(r) ==
  /\ Running(r)
  /\ ~Expired(r)
  /\ answer' = [answer EXCEPT ![r] = "timeout"]
  /\ UNCHANGED <<schema, opening, faults, adapters, tableVars, goroutine,
                 storageAdapter, attempt, worker, history>>

-------------------------------------------------------------------------------
(* The run, its history and its worker. *)

\* A workflow task completes, and what has been answered becomes history.
CompleteTask ==
  /\ worker # None
  /\ history' = {r \in Record : answer[r] \notin {"none", "awaited"}}
  /\ history' # history
  /\ UNCHANGED <<schema, opening, faults, adapters, tableVars, activity, worker,
                 answer>>

\* What is not in the history is forgotten with the process.
Crash(p) ==
  /\ faults < MaxFaults
  /\ faults' = faults + 1
  /\ phase' = [a \in Adapter |-> IF Home[a] = p THEN "unopened" ELSE phase[a]]
  /\ pending' = [a \in Adapter |-> IF Home[a] = p THEN {} ELSE pending[a]]
  /\ adapters' = [adapters EXCEPT ![p] = None]
  /\ IF worker # p THEN UNCHANGED <<activity, worker, answer>>
     ELSE /\ worker' = None
          /\ goroutine' = [r \in Record |->
                             IF r \in history THEN "ended" ELSE "idle"]
          /\ storageAdapter' = [r \in Record |->
                             IF r \in history THEN storageAdapter[r] ELSE None]
          /\ attempt' = [r \in Record |-> 0]
          /\ answer' = [r \in Record |->
                             IF r \in history THEN answer[r] ELSE "none"]
  /\ UNCHANGED <<schema, tableVars, history>>

\* A process can replay the history if its registry answers as it did then: a
\* marker of an activity the code does not start, or the other way round, fails
\* the workflow task.
Replayable(q) ==
  \A r \in history : HasStorageAdapter(q) <=> answer[r] # "skipped"

PickUp(q) ==
  /\ worker = None
  /\ Replayable(q)
  /\ worker' = q
  /\ UNCHANGED <<schema, opening, faults, adapters, tableVars, activity, answer,
                 history>>

-------------------------------------------------------------------------------
Attempt(r) == Insert(r) \/ InsertRefused(r) \/ InsertFails(r)

ActivityStep(r) ==
  \/ LookUp(r) \/ LookUpNothing(r) \/ Invalid(r)
  \/ Attempt(r) \/ Interrupted(r) \/ Retry(r)

Next ==
  \/ \E a \in Adapter : Opening(a) \/ CleanupOldRecords(a)
  \/ \E p \in Process : \/ \E a \in Adapter \cup {None} :
                              RegisterStorageAdapter(p, a)
                        \/ CloseAll(p)
                        \/ Crash(p)
                        \/ PickUp(p)
  \/ \E r \in Record : HandOver(r) \/ ActivityStep(r) \/ Expire(r)
  \/ CompleteTask

Spec == Init /\ [][Next]_vars

\* A goroutine runs on, and a statement ends.  An opening goes on, and one that
\* failed is repeated: the application is started again.  Nothing makes the
\* database work, the application register or a process die.
Fairness ==
  /\ \A r \in Record : WF_vars(ActivityStep(r))
  /\ \A a \in Adapter : WF_vars(OpenStep(a) /\ UNCHANGED
       <<adapters, tableVars, activity, workflowVars>>)

FairSpec == Spec /\ Fairness

-------------------------------------------------------------------------------
(***************************************************************************)
(* Correctness.                                                            *)
(***************************************************************************)

\* The type invariant.
TypeOK ==
  /\ recorded \subseteq Version /\ tables \subseteq Prefix /\ indexes \subseteq Prefix
  /\ phase \in [Adapter -> {"unopened", "migrating", "recording", "open", "closed",
                           "reclosed"}]
  /\ pending \in [Adapter -> SUBSET Version]
  /\ faults \in 0..MaxFaults
  /\ adapters \in [Process -> Adapter \cup {None}]
  /\ rows \in [Prefix -> SUBSET Record] /\ cleaned \subseteq Record
  /\ worker \in Process \cup {None}
  /\ goroutine \in [Record -> {"idle", "started", "storing", "waiting", "ended"}]
  /\ storageAdapter \in [Record -> Adapter \cup {None}]
  /\ attempt \in [Record -> 0..MaxRetries]
  /\ answer \in [Record -> {"none", "awaited", "skipped", "success", "failure",
                            "timeout"}]
  /\ history \subseteq Record

\* However many openings race, fail and are cut short by a crash, an adapter that
\* is open has its table, and every migration it did not have to apply itself
\* was applied by someone: what is recorded has been done (RunMigrations).
OpenIsMigrated ==
  /\ \A a \in Adapter : phase[a] = "open" =>
       TablePrefix[a] \in tables /\ recorded = Version
  /\ 1 \in recorded => tables # {}
  /\ 2 \in recorded => indexes # {}

\* What a process has registered is an adapter of its own that is open: adapters
\* are closed where they leave the registry, and nowhere else but where the one in
\* the registry is registered again (RegisterStorageAdapter, CloseAll).
RegisteredIsOpen ==
  \A p \in Process : HasStorageAdapter(p) =>
    phase[adapters[p]] \in {"open", "reclosed"} /\ Home[adapters[p]] = p

\* A storage activity that reports success has stored this very record, or no
\* adapter was left when it looked for one, whatever was replaced, closed,
\* retried, interrupted or repeated after a crash (StoreEntityWorkflowRecord).
SuccessIsStored ==
  \A r \in Record : answer[r] = "success" /\ storageAdapter[r] # None =>
    r \in cleaned \cup rows[TablePrefix[storageAdapter[r]]]

\* A row is there until it is cleaned up; in particular no later record under its
\* key, of the same or another incarnation of the entity, takes its place.
StoredUntilCleaned ==
  [][\A x \in Prefix : rows[x] \subseteq rows'[x] \cup cleaned']_vars

\* Adapters that come and go, attempts that time out and take effect, activities
\* that start over after a crash and openings that race are, to who reads the
\* tables and the history of the workflow, a store: one row under a key, for as
\* long as nobody cleans up, and what the history calls stored was stored.
Store == INSTANCE RecordStore
           WITH Table <- Prefix,
                reported <- {r \in history : /\ answer[r] = "success"
                                            /\ storageAdapter[r] # None}

ImplementsRecordStore == Store!Spec

\* The goroutine of a storage activity ends, also when nobody waits for it any
\* more, its adapter is closed or the database stays locked (the bounded loop of
\* attempts).
ActivityEnds == \A r \in Record \ Earlier : Running(r) ~> ~Running(r)

\* An application that starts over after an error gets its adapter, whoever else
\* opens the database at the same time, and whatever a crash left half done.  The
\* exception is a prefix of its own in a database whose schema_migrations was
\* written for another one.
OpenSucceeds ==
  \A a \in Adapter : phase[a] = "unopened" ~>
    \/ phase[a] = "open"
    \/ 1 \in recorded /\ TablePrefix[a] \notin tables
===============================================================================
