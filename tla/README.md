# A formal model of amrita-engines

amrita-engines runs *entities*: long-lived Temporal workflows, one per business
object, each with an *engine* that turns events into new states. Clients send
an entity updates; the workflow authorizes each, refuses the ones it has seen,
lets the engine process one event at a time in a local activity, stores a record
of what happened, and from time to time continues as new with a compressed
state. This directory holds TLA+ modules for the engine, for the
workflow, for the storage of its records and for the counter the repository's tests
run, configurations that model-check them with TLC, and theorems about them
that TLAPS proves for every value of the constants. Paths of the code below are
relative to `src/`.

Contents: [inventory](#inventory) · [modules](#modules) · [the engine](#the-engine) ·
[the entity workflow](#the-entity-workflow) · [storage](#storage) ·
[the demo engine](#the-demo-engine) · [runs](#runs) ·
[where code and text disagree](#where-code-and-text-disagree) · [proofs](#proofs) ·
[not modelled](#not-modelled) · [plan](#plan)

## Inventory

| component | state it keeps | operations | what is hard | correct when |
|---|---|---|---|---|
| **Base engine** `pkg/engines/base_engine.go` (interface in `engine.go`, `envelope.go`, `validation.go`, `errors.go`) | business state, shadow state, prepared events, transaction state / id / counter, last processed sequence, statistics | `SetInitialState`, `ProcessEvent(s)`, `Prepare`, `Commit`, `Abort`, getters | two ways to change the state, partial failure of a batch, late or repeated phase-2 calls, numbers at the boundary of the idempotency check | the transaction fields move together; an id is decided once; a commit installs the effect of the prepared events on the present state; nothing is applied twice |
| **Entity workflow** `pkg/entityworkflows/entity_workflow.go` | `currentState`, `entityMetadata`, the engine, `stateMutex`, `workflowState`, the handlers in flight | start, update (validator and handler), process-event and compress activities, main loop, drain, continue-as-new | interleaved coroutines, activities that outlive their deadline, replay after a worker loss, cancellation, updates arriving while a run ends | the entity is a serial object: each update applied at most once, none lost that was acknowledged, only its owner's, every update answered, the run ends when it should |
| **Workflow state** `pkg/entityworkflows/state/workflow_state.go` | request and pending counts, threshold, processed keys, cutoff, sequence number, metadata | increments, `IsRequestProcessed`, `MarkRequestProcessed`, cutoff and state for the next run | what survives continue-as-new, the inclusive cutoff | pending = handlers in flight; numbers unique; a duplicate was applied |
| **Authorization** `pkg/entityworkflows/auth` | none | `InitializeFromRequest`, `AuthorizeRequest` | the first request claims the entity; optional fields | no update of anyone but the owner gets in |
| **Idempotency checker** `state/idempotency.go` | processed keys, cutoff | the idempotency part of workflow state once more; not used by the workflow | chains of checkers over runs | as above |
| **Handlers** `pkg/entityworkflows/handlers` | none | an update and a query handler the workflow does not use | – | – |
| **Engine activities and registry** `pkg/entityworkflows/activities/engine_*.go` | map of factories | register, get, clear; an activity that makes an engine per call | – | the state after an event depends on the event and the state given |
| **Storage** `pkg/entityworkflows/storage`, `activities/storage_activities.go`, `storage/sqlite/adapter.go` | registry of adapters, connection, records | register, replace, close; store with retries, clean up | an adapter replaced while in use, an interrupted insert that took effect, a retry policy that never sees an error, a registry that is read in workflow code | what is reported stored is stored, a row stays until it is cleaned up, an activity ends |
| **Migrations** `storage/sqlite/migrations.go` | `schema_migrations` | `RunMigrations` | several processes, several table prefixes, a crash between two statements | what is recorded was applied, each adapter that starts has its table, an opening that is repeated succeeds |
| **Demo engine** `pkg/demo_engine` | counter, configuration, history | increment, reset, configure, defaults, compress | int64 wrap-around, limits that change | the value respects the configuration, the history explains the value |
| **Ids, utilities, generated code** | none | string building, reflection, protobuf | – | – |

How they interact. A client's update goes through the workflow's *validator* and
*handler*, which are coroutines of the workflow and run one at a time, from one
wait to the next. The handler calls the engine through a *local activity*, which
runs in an ordinary goroutine, next to the coroutines. The engine belongs to the
run and lives in the worker's memory; the workflow's variables are rebuilt from the
history when the run moves to another worker. The record of an update is handed to
another local activity and nobody waits for it. A run that has reached its
threshold waits until no handler is in flight, compresses the state in a local
activity and starts the next run with it; the bookkeeping travels in the
parameters of that run, as JSON.

## Modules

| module | models | |
|---|---|---|
| `EngineEvents` | envelopes, batches, what the processor makes of a batch | constants and operators |
| `BaseEngine` | `BaseEngine`, every call | state machine |
| `AtomicEngine` | an engine that applies each batch at once and in order | abstract specification |
| `MCBaseEngine` | a bounded counter as the business logic | instance for TLC |
| `BaseEngineProofs` | | theorems |
| `Authorization` | the fields of an identity, claiming and checking an owner | operators |
| `Idempotency` | `IdempotencyChecker`: lookup, mark, cutoff | operators on a record |
| `WorkflowState` | `WorkflowState`: constructors, increments, JSON | operators on a record, extends the two above |
| `EntityWorkflow` | the workflow, its activities, its engine, continue-as-new, replay | state machine, composes `WorkflowState` |
| `SerialEntity` | what an entity promises its clients | abstract specification |
| `MCEntityWorkflow` | up to five updates, two keys, three callers | instance for TLC |
| `EntityWorkflowProofs` | | theorems that hold under every fault |
| `EntitySerialProofs` | | theorems about the serial object, under stated conditions |
| `EntityFaultProofs` | | theorems about single promises, each under the weakest condition found |
| `IdempotencyProofs` | | theorems about chains of checkers |
| `Migrations` | `NewSQLiteStorageAdapter`, `RunMigrations`, statement by statement | actions of one opening |
| `EntityStorage` | adapter registries, the storage activity, the SQLite adapter, deadlines, crashes | state machine, composes `Migrations` |
| `RecordStore` | one row under a key until it is cleaned up, nothing reported that was not there | abstract specification |
| `MCEntityStorage` | two processes, two adapters, two records under one key | instance for TLC |
| `EntityStorageProofs` | | theorems |
| `DemoEngine` | the counter: signals, defaults, compression, validation rules | state machine |
| `MCDemoEngine` | a counter of four bits, its start states and histories | instance for TLC |
| `DemoEngineProofs` | | theorems |

Definitions whose comment begins with *Slip* are wrong on purpose: each is a
definition of the module as a plausible mistake would have it, and shows that the
property it is paired with in `PROJECT.json` notices the mistake. They are not
part of any specification.

## The engine

`BaseEngine` has the fields of the struct as variables and one action per call
that changes something. The engine has no lock and its callers take turns, so a
call is a step. Calls that return an error and change nothing are stuttering
steps and have no action; the error paths that leave something behind have one:
`ProcessEventsFails` (the sequence number of the events before the rejected one stays,
`base_engine.go:178`) and `PrepareFails` (the transaction id is used up,
`:275`). The intermediate values COMMITTED and ABORTED of the transaction state are
overwritten before the call returns and do not appear.

Abstractions: payloads are members of `State` and `Event`; the processor is an
arbitrary function; protovalidate is the sets `InvalidEvent`, `BadTransition` and
the value `Rejected`; the defaults are already applied to the state
`SetInitialState` is given. `outcome` and `applied` are history variables: what
became of each id, which numbers were applied.

Specifications: `Spec` is any caller and any order of calls; `OrderedSpec` a caller
that prepares batches in the order of their numbers and commits or aborts them.

## The entity workflow

`EntityWorkflow` models one entity. The workflow's coroutines are cooperative and
their progress is written to the history, so what a coroutine does between two
waits is one action:

| action | code (`entity_workflow.go`) |
|---|---|
| `RefuseUnauthorized`, `AnswerDuplicate`, `Accept` | validator and handler up to its first wait (272–372): claim or check the owner, look the key up, count, take a number, serialize the state, lock |
| `TakeLock` | the wait in `stateMutex.Lock` ends (368) |
| `EngineBegin`, `LateCall` | the goroutine of the local activity in the engine (50–116) |
| `EngineReturns`, `EngineRefuses`, `ActivityTimesOut` | the activity's result and the rest of the handler (400–507), the deferred unlock and decrement included |
| `Break`, `Drained`, `ContinueAsNew`, `CompressFails` | main loop, drain, compression, new run (526–628) |
| `Cancel`, `Suggest`, `Replay`, `LoseTask`, `Tick` | what Temporal does: cancellation, the suggestion to continue as new, replay on another worker, a workflow task that is lost before it completes, time |
| `RecordStored`, `RecordDropped` | the storage activity (464–473), seen as an insert under the primary key |

The state of the entity is the sequence of the updates applied to it: the engine's
function, the business defaults and the compression are the identity on it, since
the properties are about *which* updates a state holds. There are three copies: the
workflow's `currentState`, the engine's `engineState`, and `initialState`, the
parameter of the run. An engine call is two steps, reading the state and
installing the new one, because a goroutine left behind by a timeout runs beside
the next activity.

Read with care:

* *Lock order.* The SDK's mutex lets any waiter in, and the coroutine of a newer
  update can be ahead of an older one; `TakeLock` picks any. A freed mutex is
  taken by a waiter before another update comes in (`Sendable`).
* *Replay.* Variables of the workflow are rebuilt as they were. Local activities
  that had ended are answered from the history, so the new engine never sees their
  events: it holds the state it was initialized with, `initialState`
  (`:219`). Activities that had not ended start again.
* *Durability.* A step is in the history once it is taken, so a replay loses nothing of the
  workflow. The exception is `LoseTask`: the worker is lost in the middle of a workflow task
  in which an update was let in at a free mutex, processed, and its record inserted
  (`:461`). The update is delivered again, perhaps after another one; the row is what is left, and
  keeps its number. It has a fault of its own, `"task"`, next to `"replay"`. A
  lost task that had taken in more than one update is not modelled.
* *Continue-as-new.* `WorkflowState` has no exported field. Its JSON is `{}`, and the
  new run reads zero values (`Transported`): no owner, no cutoff, sequence 0,
  and threshold 0, with which the validator refuses every update and the
  main loop continues as new at once, again and again. The model does this as
  the code does; later runs of an entity therefore accept nothing.
* *Owner.* A caller is a record of the five fields of `entityv1.RequestContext`, each
  with a value or empty (`Authorization`). The first update claims the entity if the
  required three are there; later ones must match in all five, the optional team
  and user included.
* *Idempotency.* `WorkflowState` repeats the bodies of `IdempotencyChecker`; both are
  `Idempotency`. The cutoff is inclusive, and a request timed before it is taken for
  processed.
* *Cancellation.* The main loop ignores the error of its wait and waits again; the
  wait of a cancelled context returns at once. The coroutine never yields: state
  `"stuck"`.
* *Faults* are switched on one by one by the constant `Faults`, so that a run can say
  under which of them a property holds.

## Storage

`EntityStorage` follows the records of one entity type and one run to the database.
`EntityWorkflow` sees a storage activity as an insert that happens or does not; here
it is a goroutine with steps of its own, next to the application that opens,
registers, replaces and closes adapters, and to other processes.

| action | code |
|---|---|
| `Connect`, `ApplyMigration`, `RecordMigration`, `PrepareStatements`, `OpenRefused`, `OpenFails` | `NewSQLiteStorageAdapter` and `RunMigrations`, one SQL statement each: the code puts no transaction around them |
| `RegisterStorageAdapter`, `CloseAll` | `storage/registry.go`; the adapter that leaves is closed |
| `HandOver` | the handler's look at the registry and the start of the activity (`entity_workflow.go:425`) |
| `LookUp`, `LookUpNothing`, `Invalid` | the activity up to the adapter: it looks the adapter up again, and not to find one is a success |
| `Insert`, `InsertRefused`, `InsertFails`, `Retry`, `Interrupted` | the loop of attempts of the adapter (`sqlite/adapter.go:112`) |
| `CleanupOldRecords` | the deletion of old rows |
| `Expire`, `CompleteTask`, `Crash`, `PickUp` | Temporal and the operating system: deadline, history, a dead process, another worker |

Read with care:

* *An insert that reports an error may have taken effect.* The retry then meets
  the primary key, which is an error that is not retried, and the record is reported
  as not stored although it is. The model says nothing against it; what holds is
  the other direction (`SuccessIsStored`).
* *A storage error is a result, not an error* (`storage_activities.go:104`), so
  Temporal's retry policy never runs; the adapter's own attempts are the only ones.
* *Incarnations.* The primary key is entity id, entity type and sequence number. An
  entity that is started anew counts from 1 again: `Earlier` are records of
  another incarnation, and a later record under their key is refused, never stored
  in their place.
* *Prefixes.* `schema_migrations` is shared by all prefixes of a database. An adapter
  with a prefix of its own finds the migrations recorded and no table, and cannot
  be opened; `OpenSucceeds` excepts exactly that.
* *Replay.* The handler asks the registry of its process inside workflow code, so a
  process can replay a history only if its registry answers as it did then
  (`Replayable`). A history with a skipped and a stored record can be replayed by
  nobody; no property is stated about it, since nothing in the code promises one.
* *Crashes.* A process loses its registry and the state of its openings, and every
  activity whose result is not in the history starts over on the next worker.

Abstractions: the five indexes of migration 2 count as one; age is left out of the
cleanup, which may remove any rows; adapters that the application registers are open,
not ones it has replaced or closed. Registering the adapter that is registered closes it and
keeps it there, which the model marks `"reclosed"`, apart from the adapters that leave the
registry, for the sake of `RegisteredIsOpen`. `cleaned` is a history variable.

## The demo engine

`DemoEngine` has the business state as its variable: value, configuration, history,
next event id. (`start`, what it was when the entity started, is there for the properties
and the bound.) A signal is a step: the handler's checks (`MayIncrement`,
`MayConfigure`), its effect (`Increment`, `Reset`, `Configure`), and the
validation of the new state by the base engine (`ValidState`, the rules in
`proto/engines/demo/v1/demo_engine_state.proto`). A refused signal changes nothing
and has no action. `ContinueAsNew` compresses the state and hands it to a new engine,
which applies the defaults and validates it.

Integers have the width `MaxInt`, and the increment wraps around as the 64-bit addition
of the code does (`engine.go:90`). The limits are compared with the wrapped sum, and
with `AllowNegative` nothing in the handler refuses it; what does is the rule
`current_value >= 0` of the validation, which at the same time keeps
`AllowNegative` from ever allowing a negative value. The theorems rest on that rule.

`Given` are the states an entity may be started with, and they are any: a client may
send a value beyond its own maximum, and a history of any length that says anything
(the repository's tests start entities with 30 and 60 events). The code checks neither, and
`DemoAssumption` demands no more than that the fields have their types. So the properties speak
of what the engine does from there. `ValueWithinLimit`: an entity started beyond its maximum is
within it from the first accepted signal on, since an increment, a reset and a new
configuration each end within the maximum they leave behind. `HistoryExplainsValue`: of the events
in the history the last `Kept` are the engine's own, one for each accepted signal (`Signals`)
until a compression drops some, and those explain the value.

## Runs

Passing runs explore every reachable state of the instance.

| run | specification | shows |
|---|---|---|
| `engine_calls` | `Spec` | `TypeOK`; `TransactionConsistent` and `DecisionsFinal`: whatever the order of calls, a late commit finds nothing and no id is reused; `PreparedUntilDecided` |
| `engine_two_phase` | `OrderedSpec` | `PreparedIsCurrent`, `NoReapplication`, and that the engine implements `AtomicEngine` |
| `entity_concurrent` | `FairSpec`, every fault | `TypeOK`, `LockDiscipline`, `PendingAccounted`, `AcceptedWithinThreshold`, `CallersOwnEntity`, `NumberedOnce`; `AppliedOnce`: no update is applied twice, whatever outlives its activity or is replayed; and that under every fault at once each update that was let in is answered (`EveryUpdateAnswered`) and a run at its threshold ends (`ContinuesAsNew`) |
| `entity_serial` | `Spec`; the compression may fail, the run may be cancelled; no replay, timeout, suggestion or resend | `EngineInSync`; `DuplicatesWereApplied`: a refused event may be sent again; `PreviousIsEarlier` and `EveryUpdateRecorded` for the audit trail: an applied update has its record, under a number no other took (no storage activity gives up there, and no task is lost); the entity implements `SerialEntity`, over three runs |
| `storage` | `FairSpec`; refused statements, locked databases, deadlines, replacements, closings, crashes | `TypeOK`; `OpenIsMigrated`, `RegisteredIsOpen`, `SuccessIsStored`, `StoredUntilCleaned`; registry, activity and adapter implement `RecordStore`; `ActivityEnds`: no activity runs for ever, also when nobody waits for it; `OpenSucceeds`: whoever starts over gets the adapter |
| `demo_engine` | `Spec` | `TypeOK`, `ValueWithinLimit`, `OnlyResetLowers`, `HistoryExplainsValue` |

Bounds. The engine: three business states with an event that fails at the top of the
range, one that gives a bad transition info and one that is invalid; numbers to 3
and batches to 2 events, enough for a batch out of order, a repeated number, a
number equal to the last one and a failure in the middle of a batch; three transaction
ids, enough for one decided, one burnt and one open. The entity: two updates under
one key, one without a key and one of another caller, so that duplicates, a
conflict over the owner and three waiters of the mutex occur; a threshold of 3
that four updates exceed; a clock of 2 or 3 with the first run's cutoff at
1, so that requests lie on both sides of it; one replay at any moment; two or
three runs. A clock tick, a replay and a run are the only unbounded things, and
`MaxTime`, `MaxReplays`, `MaxRuns`, `MaxTransactions`, `MaxSequence` and `MaxBatch` are
the only bounds there. Storage: two adapters of one process, of which one has a
prefix of its own, so that one can replace the other and openings of both prefixes
race; a second process for the run to move to; two records under one key, one of them
another incarnation's; one retry (`MaxRetries`, 3 by default), so that the last attempt
differs from the first; `MaxFaults` of 2, for refused statements and crashes together.
The demo engine: four
bits, a sign and values to 7, so that an increment by the largest amount wraps around from every
value but 0; a maximum in the middle of the range, none, and an invalid one; start values within
the maximum and beyond it, start histories that are empty, refused by the validation, and longer than
what is kept; a history cut at two events and `MaxSignals` of 4, enough for a compression followed by more
events and another one; an id that starts one before the last, so that it wraps around too. Deadlock is not checked: all updates may be answered, a
workflow may fail, and bounds end behaviours.

Fairness. `FairSpec` of `EntityWorkflow` assumes weak fairness of the handler taking a free mutex, of an
activity in the engine or past its deadline giving its result (local
activities have a deadline, so this needs nothing of the engine where timeouts can
happen), of the main coroutine noticing the end of its waits, and of the
compression. The SDK's dispatcher runs every coroutine whose condition holds before it
yields, which is stronger. Nothing is assumed of clients, the server's suggestion,
storage or faults. Weak fairness of `TakeLock` is enough because waiters are finitely
many and each takes the mutex once. `FairSpec` of `EntityStorage` assumes weak fairness of
the goroutine of each activity, which a deadline interrupts and the adapter's loop bounds,
and of each opening, an application that starts over after an error included. Nothing
makes the database unlock, the application register or a process die; `OpenSucceeds`
holds because what goes wrong at an opening is either one of finitely many faults or another
opening's progress.

Each of these runs fails when one of the definitions is replaced by the *Slip*
paired with the property in `PROJECT.json`.

## Where code and text disagree

Six runs end in a counterexample. Each checks one property that a comment, a doc or
a test states and the code does not keep:

| run | property | behaviour found |
|---|---|---|
| `entity_resend` | `AtMostOnce` | two updates under one key: both look the key up, one waits for the mutex, both are applied. "Should return same state, not increment again" (`pkg/demo_engine/entity_workflow_update_test.go:438`) |
| `entity_replay` | `AckedNotLost` | an update is applied and acknowledged, the run moves to another worker, the next update is processed by an engine that holds the run's initial state. "Always initialize the engine with current workflow state … Temporal ensures this is deterministic across replays" (`entity_workflow.go:206`) |
| `entity_suggested` | `AckedNotLost` | the server suggests to continue as new, the drain finishes, an update is admitted while the state is compressed, applied, acknowledged and not in the next run. "Validator prevents updates during continue-as-new" (`:510`) |
| `entity_timeout` | `OneEventAtATime` | an activity times out, the mutex is released, the next update enters the engine beside the first. "only one event is processed at a time" (`:365`) |
| `entity_carry_over` | `ContinuationPreserved` | sequence, cutoff and owner do not survive JSON. "Fresh workflow state with preserved sequence + cutoff" (`:618`) |
| `engine_failed_batch` | `SequenceIsApplied` | a batch fails at its second event and leaves the number of its first behind. "processes a batch of events atomically" (`base_engine.go:134`) |

Seen while modelling, without a run of their own:

* `ProcessEvents` works while a transaction is prepared and the commit then overwrites
  it (`PreparedIsCurrent` does not hold under `Spec`); `Prepare` does not compare the
  numbers within a batch (`NoReapplication` needs `InOrder`).
* Events are not always applied in the order of their sequence numbers; the previous
  state of a record need not be the direct predecessor of the record's state; a
  request timed before the first run's start is answered as a duplicate of nothing.
* An adapter that is registered a second time is closed and stays registered
  (`storage/registry.go:28`).
* The row of a workflow task that was lost keeps its sequence number: if another update gets
  the number after the replay, its record is refused and the trail shows an update that the
  entity may hold in another place, or not at all (`entity_workflow.go:461`).
* A demo entity may be started beyond its own maximum, and with a history that does not
  fit its value.
* `activities/demo_registration.go` registers `demo.Engine` without a processor, while
  the entity type derived from the state is `engines.demo.v1.DemoEngineState`.
* `:memory:` databases (in tests) are one database per pooled connection.

## Proofs

`tlapm` on `BaseEngineProofs.tla`, `EntityWorkflowProofs.tla`, `EntitySerialProofs.tla`,
`EntityFaultProofs.tla`, `IdempotencyProofs.tla`, `EntityStorageProofs.tla` and `DemoEngineProofs.tla` proves, for all values of the constants
that satisfy the named assumptions:

| theorem | property | argument |
|---|---|---|
| `EngineTypeCorrect` | `TypeOK` of the engine | one step per call; a projected state is tested to be in `State` before it is installed |
| `EngineTransactionConsistent` | `TransactionConsistent` | inductive together with the types |
| `PreparedStaysCurrent` | `PreparedIsCurrent` | under `OrderedSpec`, where nothing moves the business state while a transaction is prepared |
| `OrderedImplementsAtomic` | `ImplementsAtomicEngine` | refinement: `SetInitialState` is `Start`, `Commit` is `Apply` of the prepared batch, everything else stutters; needs `PreparedIsCurrent` and that the prepared batch is in order after the last number |
| `EngineSequenceIsApplied` | `SequenceIsApplied` | under `Spec`, two-phase calls and `ProcessEvents` mixed, and `NoBatchFails`: no batch of `ProcessEvents` is rejected half way. The run `engine_failed_batch` lifts the condition, which is the only cause |
| `EngineDecisionsFinal`, `EnginePreparedUntilDecided` | the action properties | from `EngineInv`: an open id is undecided and the counter is above every decided one (`TransactionStep`) |
| `OrderedNoReapplication` | `NoReapplication` | strengthened: everything applied is at most the last number (`AppliedBelowLast`), and a prepared batch rises from above it |
| `EntityTypeCorrect` | `TypeOK` of the workflow | from the next ones: that the pending count is a natural number follows from `PendingAccounted` |
| `EntityLockDiscipline` | `LockDiscipline` | inductive with the control types |
| `EntityPendingAccounted` | `PendingAccounted` | cardinality of the updates in flight changes by one exactly when the count does |
| `EntityWithinThreshold` | `AcceptedWithinThreshold` | inductive with the control types |
| `EntityNumberedOnce` | `NumberedOnce` | strengthened: the numbers given out are at most the counter, as long as a run accepts anything; after a continue-as-new the threshold is 0 and nothing gets a number |
| `EntityCallersOwn` | `CallersOwnEntity` | strengthened to the updates that left their activity behind and to what a replay starts again |

`EntitySerialProofs` is about the promise to the clients. It holds only under
conditions, which are predicates on the constant `Faults`: `SteadyEngine` (no activity
times out, no run is replayed), `Unsuggested` (the server does not suggest to continue as
new), `PatientClients` (nobody resends a key before its answer). Compression failures,
cancellation and lost records are allowed throughout, and the numbers of updates, runs and keys are
arbitrary. Each violation run lifts one of the conditions and shows that the promise
breaks: `entity_timeout` and `entity_replay` the first, `entity_suggested` the second,
`entity_resend` the third.

| theorem | property | conditions | argument |
|---|---|---|---|
| `EntityEngineInSync` | `EngineInSync` | steady | only the holder of the mutex is in the engine, so nobody else's call goes stale when one returns |
| `EntityPreviousIsEarlier` | `PreviousIsEarlier` | steady | a serialized state is a prefix of the present one, and the present one only grows |
| `EntityDuplicatesWereApplied` | `DuplicatesWereApplied` | steady, unsuggested | strengthened: a key in the map is the key of an update in the state, and the cutoff is the time the entity was started or zero |
| `EntityImplementsSerial` | `ImplementsSerialEntity` | all three | refinement: the return of the engine call is `Apply`, everything else stutters; needs that a key in flight is in flight once and that no update is in flight while a run ends |

The serial object is the whole promise and needs all the conditions. `EntityFaultProofs`
takes single promises, among them the properties of the violation runs, and proves each under
less, so that what a condition is good for can be told apart. The run `entity_timeout` lifts the condition of `EntityOneEventAtATime`, `entity_resend` that of patient clients
in `EntityAtMostOnce`, `entity_replay` and `entity_suggested` two of those of `EntityAckedNotLost`, and each run
ends in a violation. The remaining one, no timeouts, is needed by both: with the fault
`"timeout"` in `entity_resend` or `entity_suggested` instead of theirs TLC finds a call that was left behind and is applied beside
the next try of its client, or overwrites what was applied and acknowledged in between.

| theorem | property | conditions | argument |
|---|---|---|---|
| `EntityAppliedOnce` | `AppliedOnce` | none, every fault | `OnceInv`: every state at hand (the workflow's, the engine's, the run's first, one a call works on) is free of repetitions and of the updates that may still be applied; a new state comes from a call that ends and from nowhere else (`HeldStep`, `CalledStep`) |
| `EntityOneEventAtATime` | `OneEventAtATime` | no timeouts | `WaitInv`: who has a call is in its activity, which only the holder of the mutex is |
| `EntityAtMostOnce` | `AtMostOnce` | patient clients, no timeouts | `AckedInv`: with nothing left behind, states at hand hold acknowledged updates only, and of those no two share a key; `KeyInv`, from the proof of the serial object, says that what is acknowledged is in the map of processed keys |
| `EntityAckedNotLost` | `AckedNotLost` | steady, unsuggested | the state only grows, and over a continuation it is the drained one |
| `EntityEveryUpdateRecorded` | `EveryUpdateRecorded` | no storage activity gives up, no workflow task is lost half way; replays of what the history has are allowed | `RecordInv`: conversely every record, stored or on its way, is of an acknowledged update under its number; numbers are unique (`NumberedOnce`), so a record is refused only where it is already |

`IdempotencyProofs` is about the methods alone. A checker hands to the next run only the time of
the newest request it marked. `ProcessedIsDuplicateInNextRun`: that is enough for what it marked.
`BusyRunKeepsCutoff`: it is enough for earlier runs too, as long as each run marks a request no
earlier than its cutoff. `IdleRunForgets`: it is not for a run that marked nothing, which happens when
its requests had no key or were refused; such a run hands on the zero time. In the
workflow the difference cannot be seen, as no cutoff survives the JSON. The lemma `MaxOfBounded` gets
the maximum of a bounded set from the well-foundedness of the naturals, which the library states
without an operator parameter.

The theorems of storage hold under every fault of the module and for any number of
processes, adapters, prefixes and records:

| theorem | property | argument |
|---|---|---|
| `StorageTypeCorrect` | `TypeOK` | together with: without a worker no activity runs (`RunsSomewhere`) |
| `StorageOpenIsMigrated` | `OpenIsMigrated` | `MigrationInv`: what an opening has behind it is recorded, and what it is about to record has been done; nothing is ever taken back from the schema, so what other openings do in between cannot hurt |
| `StorageRegisteredIsOpen` | `RegisteredIsOpen` | inductive with the types: an adapter is registered in one place at most, its home; one that was registered again is excepted |
| `StorageSuccessIsStored` | `SuccessIsStored` | `ActivityInv`: an activity has an adapter from its look-up on and is answered when it ends or expires, and what is history has been answered |
| `StorageStoredUntilCleaned` | `StoredUntilCleaned` | every step adds a row, removes old ones in a cleanup, or leaves the tables alone (`RowsStep`) |
| `StorageImplementsRecordStore` | `ImplementsRecordStore` | refinement: an insert that takes effect is `Insert`, also when it is reported as an error; a workflow task whose history takes in a success is `Report`, allowed because a success is stored (`ActivityInv`); everything else stutters, as what the history has an activity or a crash cannot change (`ReportedStep`) |
| `StorageOnlyRacesRefuse` | – | for adapters of one table prefix, from `MigrationInv`: the table is there once version 1 is recorded, so that only a lost race for a version refuses an opening. With a second prefix it is false, the exception in `OpenSucceeds` |

The demo engine's theorems `DemoTypeCorrect`, `DemoWithinLimit`, `DemoOnlyResetLowers` and
`DemoHistoryExplainsValue` (of `TypeOK`, `ValueWithinLimit`, `OnlyResetLowers` and
`HistoryExplainsValue`) hold for every width of the integers, every set of
configurations and amounts, every start state and every length of history. Every accepted signal appends
one event that starts at the old value and ends at the new one (`Signalled`), so that the next id counts the accepted signals (`SignalsCounted`, `NextIdIsNext`);
`SumWraps` says that a sum which is not negative did not wrap; `AppendExplains` and
`SuffixExplains` are about histories alone: an event may be appended, and any
suffix still explains the value. Each invariant is inductive together with the types.

The assumptions are `EventsAssumption`, `EngineAssumption`, `IdempotencyAssumption`,
`AuthorizationAssumption`, `WorkflowStateAssumption`, `EntityWorkflowAssumption`,
`MigrationsAssumption`, `StorageAssumption` and `DemoAssumption`; TLC evaluates them in every run. The workflow's
proofs first show that every step is, for the mutex and the counts, of one of six
kinds (`StepKind`: untouched, turned away, let in, resumed, returned, ended), and
then argue by kind.

`StorageAssumption` says of `Earlier` that its records have keys of their own: they are the
rows of one table, and the key is the primary key. Every theorem of the
violation runs' properties states its condition in its `ASSUME`, as a predicate on
`Faults` or on the behaviour, that some value of the constants satisfies.

Only model-checked: liveness (`EveryUpdateAnswered`, `ContinuesAsNew`, `ActivityEnds`,
`OpenSucceeds`), which is out of the prover's reach. Every safety property of the passing runs is a theorem, and of the violation runs'
properties all but `ContinuationPreserved`, which fails at every continuation. What the recursive function
`Running` makes of a whole batch is not proved either, as that takes induction; the engine's
theorems need no more of it than the calls test before they install its result.

## Not modelled

* The query handler and the engine's getters: they read.
* Error returns no reachable state takes: failing protobuf marshalling of a valid
  message, a sequence number in an activity's result that differs from the one given,
  an update before the initialization, a failing initialization at the start of a run.
* Temporal itself and the SDK are external: dispatcher, mutex, local activities,
  history, updates. Actions that stand for them are marked so in `PROJECT.json`. A run that
  is evicted from the worker's cache without a crash is not modelled in `EntityStorage`
  (it is a `Replay` of `EntityWorkflow`).
* `handlers`: a second update and query handler that nothing calls; the handlers the workflow
  registers are inline and modelled.
* Engine activities and registry: an activity that makes an engine per call out of a
  map of factories. Nothing calls it outside a test; each call is a function of its
  input, so that no state is left to interleave.
* Ids, utilities, generated code: strings, reflection and protobuf, without state.
* Factories of adapters other than SQLite's do not exist; `InitializeStorageAdapters`, which
  registers one after another and returns at the first error, is a sequence of `Opening` and
  `RegisterStorageAdapter` that may stop anywhere.

## Plan

What could still be added, in order of worth:

| addition | question | composes |
|---|---|---|
| `EntityWorkflow` over `EntityStorage` | whether the abstract insert of `EntityWorkflow` is what the storage activity does, as a refinement | both |
| `DemoEngine` as a `Processor` | that the signals are an instance of `BaseEngine`, so that the theorems of both compose | `DemoEngine`, `BaseEngine` |
| several entities | one registry and one database for the runs of many entities | `EntityStorage` |
