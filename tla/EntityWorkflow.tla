---------------------------- MODULE EntityWorkflow ----------------------------
(***************************************************************************)
(* pkg/entityworkflows/entity_workflow.go: one entity, the updates clients *)
(* send it, the engine its runs hold, and continue-as-new.                 *)
(*                                                                         *)
(* The workflow's coroutines are cooperative: what one does between two    *)
(* waits is one step.  A local activity runs in a goroutine of its own, so *)
(* its call of the engine begins and ends in separate steps.  The state of *)
(* the entity is the sequence of the updates applied to it.                *)
(***************************************************************************)
EXTENDS WorkflowState, Sequences, FiniteSets

CONSTANTS
  Update,       \* update requests, one element for each time one is sent
  NoOne,        \* no update: the mutex is free
  NotCalled,    \* no engine call in progress
  key,          \* Update -> Key \cup {NoKey}: IdempotencyKey
  caller,       \* Update -> RequestContext, but for its key and time
  requestTime,  \* Update -> Nat: RequestTime
  Refused,      \* updates whose event the engine refuses
  HasStorage,   \* a storage adapter is registered for the entity type
  Faults,       \* what may go wrong in a behaviour, see AllFaults
  MaxTime,      \* bound: the workflow clock
  MaxReplays,   \* bound: replays of the history
  MaxRuns       \* bound: runs of the entity

\* replay: the worker is lost or the run evicted from its cache; task: and it is
\* lost in the middle of a workflow task; timeout: a
\* local activity outlives its deadline; suggest: the server suggests to
\* continue as new; compress: the compression fails; cancel: the run is
\* cancelled; storage: a record is given up; resend: a client sends a key
\* again before the answer.
AllFaults == {"replay", "timeout", "suggest", "compress", "cancel", "storage",
              "resend", "task"}

ASSUME EntityWorkflowAssumption ==
  /\ IsFiniteSet(Update)
  /\ NoOne \notin Update
  /\ NotCalled \notin Seq(Update)
  /\ key \in [Update -> Key \cup {NoKey}]
  /\ requestTime \in [Update -> Nat]
  /\ caller \in [Update -> RequestContext]
  /\ Refused \subseteq Update
  /\ HasStorage \in BOOLEAN
  /\ Faults \subseteq AllFaults
  /\ MaxTime \in Nat \ {0} /\ MaxReplays \in Nat /\ MaxRuns \in Nat \ {0}

VARIABLES
  now,          \* workflow.Now
  ws,           \* workflowState, with the entity's metadata
  currentState, \* the workflow's copy of the state
  engineState,  \* businessState of the engine of this run
  initialState, \* params.InitialState of this run
  lock,         \* the update that holds stateMutex
  main,         \* where the workflow's main coroutine is
  compressing,  \* the state given to the compression
  suggested,    \* ContinueAsNewSuggested
  pc,           \* where each update is, or how it was answered
  sequence,     \* the number each update was given
  previous,     \* the state each update serialized before it was let in
  engineCall,   \* the state each running activity read from the engine
  storing,      \* records handed to a storage activity
  records,      \* records in storage
  run,          \* the run of the entity, counted from 1
  replays       \* replays so far

time == <<now, replays>>
engine == <<engineState, engineCall>>
storage == <<storing, records>>
runVars == <<initialState, compressing, run>>
mainVars == <<main, suggested>>
updateVars == <<pc, sequence, previous>>
vars == <<time, ws, currentState, engine, runVars, lock, mainVars, updateVars,
          storage>>

States == Seq(Update)
Answered == {"ok", "duplicate", "unauthorized", "failed", "aborted"}
InFlight(u) == pc[u] \in {"locking", "activity"}
WasLetIn(u) == InFlight(u) \/ pc[u] \in {"ok", "failed", "aborted"}

\* The coroutines run: the main one is blocked in a wait.
Scheduled == main \in {"await", "drain", "compress"}

-------------------------------------------------------------------------------
\* The first run of an entity, its engine initialized with an initial state.
Init ==
  /\ now = 1
  /\ ws = NewWorkflowState(1)
  /\ currentState = <<>> /\ engineState = <<>> /\ initialState = <<>>
  /\ lock = NoOne
  /\ main = "await"
  /\ compressing = <<>>
  /\ suggested = FALSE
  /\ pc = [u \in Update |-> "idle"]
  /\ sequence = [u \in Update |-> 0]
  /\ previous = [u \in Update |-> <<>>]
  /\ engineCall = [u \in Update |-> NotCalled]
  /\ storing = {} /\ records = {}
  /\ run = 1
  /\ replays = 0

Tick ==
  /\ now < MaxTime
  /\ now' = now + 1
  /\ UNCHANGED <<ws, currentState, engine, runVars, lock, mainVars,
                 updateVars, storage, replays>>

\* The client has made the request, and does not wait for an answer to the same
\* key.  The dispatcher resumes who waits for a mutex that was released before it
\* takes in another update.
Sendable(u) ==
  /\ requestTime[u] <= now
  /\ lock = NoOne => \A v \in Update : pc[v] # "locking"
  /\ "resend" \notin Faults /\ key[u] # NoKey =>
       \A v \in Update : key[v] = key[u] => ~InFlight(v)

\* Slip: the threshold is off by one.
AdmittedAtThreshold(u) ==
  /\ Scheduled
  /\ pc[u] = "idle"
  /\ Sendable(u)
  /\ ws.requestCount <= ws.requestsBeforeCAN

\* A client sends u and the validator lets it through.  An update the
\* validator turns down leaves no trace and may be sent again.
Admitted(u) ==
  /\ Scheduled
  /\ pc[u] = "idle"
  /\ Sendable(u)
  /\ ws.requestCount < ws.requestsBeforeCAN

\* The first request claims the entity, the later ones must match it.
Authorized(u) ==
  IF ws.entityMetadata = NoMetadata THEN ValidateRequestContext(caller[u])
  ELSE AuthorizeRequest(caller[u], ws.entityMetadata)

\* The bookkeeping once u has passed.
Claimed(u) ==
  IF ws.entityMetadata # NoMetadata THEN ws
  ELSE SetEntityMetadata(ws, InitializeFromRequest(caller[u]))

Duplicate(u) == IsRequestProcessed(ws, key[u], requestTime[u])

RefuseUnauthorized(u) ==
  /\ Admitted(u)
  /\ ~Authorized(u)
  /\ pc' = [pc EXCEPT ![u] = "unauthorized"]
  /\ UNCHANGED <<time, ws, currentState, engine, runVars, lock, mainVars, sequence,
                 previous, storage>>

\* Slip: a duplicate releases a request it never counted.
AnswerDuplicateReleased(u) ==
  /\ Admitted(u)
  /\ Authorized(u)
  /\ Duplicate(u)
  /\ ws' = DecrementPendingUpdates(Claimed(u))
  /\ pc' = [pc EXCEPT ![u] = "duplicate"]
  /\ UNCHANGED <<time, currentState, engine, runVars, lock, mainVars, sequence,
                 previous, storage>>

\* A duplicate is answered with the current state, and claims the entity.
AnswerDuplicate(u) ==
  /\ Admitted(u)
  /\ Authorized(u)
  /\ Duplicate(u)
  /\ ws' = Claimed(u)
  /\ pc' = [pc EXCEPT ![u] = "duplicate"]
  /\ UNCHANGED <<time, currentState, engine, runVars, lock, mainVars, sequence,
                 previous, storage>>

\* The handler up to its first wait: for the mutex when it is taken, for the
\* local activity when it is not.
Accept(u) ==
  /\ Admitted(u)
  /\ Authorized(u)
  /\ ~Duplicate(u)
  /\ ws' = Counted(Claimed(u))
  /\ sequence' = [sequence EXCEPT ![u] = ws'.sequenceNumber]
  /\ previous' = [previous EXCEPT ![u] = currentState]
  /\ lock' = IF lock = NoOne THEN u ELSE lock
  /\ pc' = [pc EXCEPT ![u] = IF lock = NoOne THEN "activity" ELSE "locking"]
  /\ UNCHANGED <<time, currentState, engine, runVars, mainVars, storage>>

\* Any of the waiting updates takes the mutex once it is free.
TakeLock(u) ==
  /\ Scheduled
  /\ pc[u] = "locking"
  /\ lock = NoOne
  /\ lock' = u
  /\ pc' = [pc EXCEPT ![u] = "activity"]
  /\ UNCHANGED <<time, ws, currentState, engine, runVars, mainVars, sequence,
                 previous, storage>>

\* The activity's goroutine enters the engine and reads its state; the state
\* the activity was given is used by an uninitialized engine only.
EngineBegin(u) ==
  /\ pc[u] = "activity"
  /\ engineCall[u] = NotCalled
  /\ engineCall' = [engineCall EXCEPT ![u] = engineState]
  /\ UNCHANGED <<time, ws, currentState, engineState, runVars, lock, mainVars,
                 updateVars, storage>>

\* Slips: one of the two deferred calls is forgotten.
ReturnPending(u, answer, w) ==
  /\ lock' = NoOne
  /\ ws' = w
  /\ pc' = [pc EXCEPT ![u] = answer]

ReturnLocked(u, answer, w) ==
  /\ ws' = DecrementPendingUpdates(w)
  /\ pc' = [pc EXCEPT ![u] = answer]
  /\ UNCHANGED lock

\* The handler returns: its deferred calls release the mutex and the request.
Return(u, answer, w) ==
  /\ lock' = NoOne
  /\ ws' = DecrementPendingUpdates(w)
  /\ pc' = [pc EXCEPT ![u] = answer]

\* Slip: the previous state is taken when the new one is there.
RecordLate(u, newState) ==
  [sequenceNumber |-> sequence[u], currentState |-> newState,
   previousState |-> newState]

\* What is stored of an update; its previous state was serialized before the
\* mutex was taken.
Record(u, newState) ==
  [sequenceNumber |-> sequence[u], currentState |-> newState,
   previousState |-> previous[u]]

\* The engine processes the event, and the handler goes on with its result.
EngineReturns(u) ==
  LET newState == Append(engineCall[u], u) IN
  /\ Scheduled
  /\ pc[u] = "activity"
  /\ engineCall[u] # NotCalled
  /\ u \notin Refused
  /\ engineState' = newState
  /\ engineCall' = [engineCall EXCEPT ![u] = NotCalled]
  /\ currentState' = newState
  /\ Return(u, "ok", MarkRequestProcessed(ws, key[u], now))
  /\ storing' = IF ~HasStorage THEN storing
                ELSE storing \cup {Record(u, newState)}
  /\ UNCHANGED <<time, runVars, mainVars, sequence, previous, records>>

\* Slips: the key of a refused update is marked; the engine keeps what the refused
\* event made of its state.
EngineRefusesMarked(u) ==
  /\ Scheduled
  /\ pc[u] = "activity"
  /\ engineCall[u] # NotCalled
  /\ u \in Refused
  /\ engineState' = engineCall[u]
  /\ engineCall' = [engineCall EXCEPT ![u] = NotCalled]
  /\ Return(u, "failed", MarkRequestProcessed(ws, key[u], now))
  /\ UNCHANGED <<time, currentState, runVars, mainVars, sequence, previous,
                 storage>>

EngineRefusesLate(u) ==
  /\ Scheduled
  /\ pc[u] = "activity"
  /\ engineCall[u] # NotCalled
  /\ u \in Refused
  /\ engineState' = Append(engineCall[u], u)
  /\ engineCall' = [engineCall EXCEPT ![u] = NotCalled]
  /\ Return(u, "failed", ws)
  /\ UNCHANGED <<time, currentState, runVars, mainVars, sequence, previous,
                 storage>>

\* The engine refuses the event: it keeps the state it had when called.
EngineRefuses(u) ==
  /\ Scheduled
  /\ pc[u] = "activity"
  /\ engineCall[u] # NotCalled
  /\ u \in Refused
  /\ engineState' = engineCall[u]
  /\ engineCall' = [engineCall EXCEPT ![u] = NotCalled]
  /\ Return(u, "failed", ws)
  /\ UNCHANGED <<time, currentState, runVars, mainVars, sequence, previous,
                 storage>>

\* Slip: an update whose activity timed out waits for the mutex once more.
ActivityTimesOutAgain(u) ==
  /\ "timeout" \in Faults
  /\ Scheduled
  /\ pc[u] = "activity"
  /\ lock' = NoOne
  /\ pc' = [pc EXCEPT ![u] = "locking"]
  /\ UNCHANGED <<time, ws, currentState, engine, runVars, mainVars, sequence,
                 previous, storage>>

\* The activity's deadline passes; a call it has begun is not interrupted.
ActivityTimesOut(u) ==
  /\ "timeout" \in Faults
  /\ Scheduled
  /\ pc[u] = "activity"
  /\ Return(u, "failed", ws)
  /\ UNCHANGED <<time, currentState, engine, runVars, mainVars, sequence, previous,
                 storage>>

\* The call an activity left behind ends, and nobody reads its result.
LateCall(u) ==
  /\ pc[u] # "activity"
  /\ engineCall[u] # NotCalled
  /\ engineState' = IF u \in Refused THEN engineCall[u]
                    ELSE Append(engineCall[u], u)
  /\ engineCall' = [engineCall EXCEPT ![u] = NotCalled]
  /\ UNCHANGED <<time, ws, currentState, runVars, lock, mainVars, updateVars,
                 storage>>

-------------------------------------------------------------------------------
(* The main coroutine, what ends a run, and the storage activities. *)

\* The loop ends; both of its tests are of the same condition.
Break ==
  /\ main = "await"
  /\ ShouldContinueAsNew(ws, suggested)
  /\ main' = "drain"
  /\ UNCHANGED <<time, ws, currentState, engine, runVars, lock, suggested,
                 updateVars, storage>>

\* Slip: the state is compressed while updates are pending.
DrainedAtOnce ==
  /\ main = "drain"
  /\ main' = "compress"
  /\ compressing' = currentState
  /\ UNCHANGED <<time, ws, currentState, engine, initialState, run, lock,
                 suggested, updateVars, storage>>

\* No update is pending: the state is handed to the compression.
Drained ==
  /\ main = "drain"
  /\ ws.pendingUpdates = 0
  /\ main' = "compress"
  /\ compressing' = currentState
  /\ UNCHANGED <<time, ws, currentState, engine, initialState, run, lock,
                 suggested, updateVars, storage>>

\* What the end of a run does to the updates in flight.
Abandoned == [u \in Update |-> IF InFlight(u) THEN "aborted" ELSE pc[u]]
NoCall == [u \in Update |-> NotCalled]

\* The compression changes the form of a state, never what was applied to it.
ContinueAsNew ==
  /\ main = "compress"
  /\ run < MaxRuns
  /\ run' = run + 1
  /\ ws' = Transported(NewWorkflowStateForContinuation(
                         GetCutoffForContinuation(ws),
                         ws.sequenceNumber, ws.entityMetadata))
  /\ initialState' = compressing
  /\ currentState' = compressing
  /\ engineState' = compressing
  /\ engineCall' = NoCall
  /\ lock' = NoOne
  /\ main' = "await"
  /\ compressing' = <<>>
  /\ suggested' = FALSE
  /\ pc' = Abandoned
  /\ UNCHANGED <<now, replays, sequence, previous, storage>>

Fail ==
  /\ main' = "failed"
  /\ pc' = Abandoned
  /\ lock' = NoOne
  /\ engineCall' = NoCall

\* An error of the compression fails the workflow.
CompressFails ==
  /\ "compress" \in Faults
  /\ main = "compress"
  /\ Fail
  /\ UNCHANGED <<time, ws, currentState, engineState, runVars, suggested,
                 sequence, previous, storage>>

Suggest ==
  /\ "suggest" \in Faults
  /\ Scheduled
  /\ ~suggested
  /\ suggested' = TRUE
  /\ UNCHANGED <<time, ws, currentState, engine, runVars, lock, main,
                 updateVars, storage>>

\* The loop ignores the error of its wait, and waits again without yielding:
\* the run is stuck for good.  The later waits return the error.
Cancel ==
  /\ "cancel" \in Faults
  /\ Scheduled
  /\ IF main = "await" /\ ~ShouldContinueAsNew(ws, suggested)
     THEN main' = "stuck" /\ UNCHANGED <<pc, lock, engineCall>>
     ELSE Fail
  /\ UNCHANGED <<time, ws, currentState, engineState, runVars, suggested,
                 sequence, previous, storage>>

\* The history is replayed elsewhere: the variables of the workflow come back
\* as they were, the results of ended activities are taken from the history,
\* running ones start again; the engine is new, and initialized with the
\* state this run was started with.
Replayed ==
  /\ "replay" \in Faults
  /\ Scheduled
  /\ replays < MaxReplays
  /\ replays' = replays + 1
  /\ engineState' = initialState
  /\ engineCall' = NoCall
  /\ UNCHANGED <<now, ws, currentState, runVars, lock, mainVars, updateVars,
                 storing>>

Replay == Replayed /\ UNCHANGED records

\* The records after an insert, which the primary key may refuse.
Inserted(r) ==
  IF \E q \in records : q.sequenceNumber = r.sequenceNumber THEN records
  ELSE records \cup {r}

\* The worker is lost with a workflow task in which u was let in, processed and its
\* record inserted: none of it is in the history, and u is delivered again.  The
\* row is what is left of it.
LoseTask(u) ==
  /\ "task" \in Faults
  /\ HasStorage
  /\ Admitted(u) /\ Authorized(u) /\ ~Duplicate(u)
  /\ lock = NoOne
  /\ u \notin Refused
  /\ records' = Inserted([sequenceNumber |-> Counted(Claimed(u)).sequenceNumber,
                          currentState |-> Append(engineState, u),
                          previousState |-> currentState])
  /\ Replayed

\* A record is inserted under its sequence number, or given up: after too many
\* attempts, or because the run that handed it over has ended.
RecordStored(r) ==
  /\ storing' = storing \ {r}
  /\ records' = Inserted(r)
  /\ UNCHANGED <<time, ws, currentState, engine, runVars, lock, mainVars,
                 updateVars>>

RecordDropped(r) ==
  /\ "storage" \in Faults
  /\ storing' = storing \ {r}
  /\ UNCHANGED <<time, ws, currentState, engine, runVars, lock, mainVars,
                 updateVars, records>>

-------------------------------------------------------------------------------
Answer(u) == EngineReturns(u) \/ EngineRefuses(u) \/ ActivityTimesOut(u)

Step(u) ==
  \/ RefuseUnauthorized(u)
  \/ AnswerDuplicate(u)
  \/ Accept(u)
  \/ TakeLock(u)
  \/ EngineBegin(u)
  \/ Answer(u)
  \/ LateCall(u)

Next ==
  \/ \E u \in Update : Step(u)
  \/ Break
  \/ Drained
  \/ ContinueAsNew
  \/ CompressFails
  \/ Suggest
  \/ Cancel
  \/ Replay
  \/ \E u \in Update : LoseTask(u)
  \/ Tick
  \/ \E r \in storing : RecordStored(r) \/ RecordDropped(r)

Spec == Init /\ [][Next]_vars

\* The dispatcher runs every coroutine whose wait is over, and an activity ends
\* or times out at its deadline, however slow the engine is.  Nothing makes a
\* client send, an engine return, the server suggest or a fault happen.
Fairness ==
  /\ \A u \in Update : WF_vars(TakeLock(u)) /\ WF_vars(Answer(u))
  /\ WF_vars(Break)
  /\ WF_vars(Drained)
  /\ WF_vars(ContinueAsNew)

FairSpec == Spec /\ Fairness

-------------------------------------------------------------------------------
(***************************************************************************)
(* Correctness.                                                            *)
(***************************************************************************)

Bookkeeping == [requestCount : Nat, pendingUpdates : Nat,
                processedRequests : [Key -> 0..MaxTime],
                requestsBeforeCAN : {0, RequestsBeforeCAN},
                idempotencyCutoff : 0..MaxTime, sequenceNumber : Nat,
                entityMetadata : EntityMetadata \cup {NoMetadata}]

\* The type invariant.  The pending count in particular never goes below zero:
\* only a handler that incremented it decrements it.
TypeOK ==
  /\ now \in 1..MaxTime
  /\ ws \in Bookkeeping
  /\ {currentState, engineState, initialState, compressing} \subseteq States
  /\ lock \in Update \cup {NoOne}
  /\ main \in {"await", "drain", "compress", "stuck", "failed"}
  /\ suggested \in BOOLEAN
  /\ pc \in [Update -> {"idle", "locking", "activity"} \cup Answered]
  /\ sequence \in [Update -> Nat]
  /\ previous \in [Update -> States]
  /\ engineCall \in [Update -> States \cup {NotCalled}]
  /\ \A r \in storing \cup records :
       /\ r.sequenceNumber \in Nat
       /\ {r.currentState, r.previousState} \subseteq States
  /\ run \in 1..MaxRuns
  /\ replays \in 0..MaxReplays

\* The mutex is held by the one update whose activity the workflow waits for,
\* across timeouts, replays and the end of a run; in particular no waiter is
\* left behind a mutex nobody holds (the handler's Lock and deferred Unlock).
LockDiscipline ==
  \A u \in Update : pc[u] = "activity" <=> lock = u

\* The pending count the drain waits for is the number of updates let in and
\* not answered (IncrementPendingUpdates and its deferred decrement).
PendingAccounted ==
  main # "failed" =>
    ws.pendingUpdates = Cardinality({u \in Update : InFlight(u)})

\* However many updates arrive before the main coroutine notices, a run lets no
\* more in than its threshold (the validator and the handler in one step).
AcceptedWithinThreshold == ws.requestCount <= ws.requestsBeforeCAN

\* Every update in flight, and every update this run applied, came from the
\* caller the entity belongs to; concurrent first requests cannot both claim
\* it (InitializeFromRequest, AuthorizeRequest).
CallersOwnEntity ==
  /\ \A u \in Update : InFlight(u) => caller[u] = ws.entityMetadata
  /\ \A i \in Len(initialState) + 1 .. Len(currentState) :
       caller[currentState[i]] = ws.entityMetadata

\* No two updates let in get the same sequence number, the primary key of their
\* records, whatever becomes of them (IncrementSequenceNumber).
NumberedOnce ==
  \A u, v \in Update :
    WasLetIn(u) /\ WasLetIn(v) /\ u # v => sequence[u] # sequence[v]

\* No update is applied twice, to the workflow's state or the engine's: an
\* activity that timed out is not tried again while its call goes on, and a
\* replay starts the calls and the engine over together.
AppliedOnce == IsInjective(currentState) /\ IsInjective(engineState)

\* An update that was applied has its record, in storage or on its way there: none
\* is refused for a number another update's record took first.  Holds as long as
\* no storage activity gives up and no workflow task is lost, whose row would keep
\* the number (the storage activity of the handler).
EveryUpdateRecorded ==
  HasStorage =>
    \A u \in Update : pc[u] = "ok" =>
      \E r \in storing \cup records :
        /\ r.sequenceNumber = sequence[u]
        /\ r.currentState[Len(r.currentState)] = u

\* The engine and the workflow agree on the state, and a call in progress works
\* on that state.  Holds as long as no activity times out and nothing is
\* replayed.
EngineInSync ==
  /\ engineState = currentState
  /\ \A u \in Update : engineCall[u] \in {NotCalled, currentState}

\* A request sent after the entity started is answered as a duplicate only if an
\* update under its key was applied; in particular one whose event the engine
\* refused may be sent again (the place of MarkRequestProcessed in the handler).
DuplicatesWereApplied ==
  \A u \in Update : pc[u] = "duplicate" /\ requestTime[u] > 1 =>
    \E v \in Range(currentState) : key[v] = key[u]

\* The previous state of a record is one the entity had before the record's
\* update; other updates may lie between the two, since it is serialized before
\* the mutex is taken (currentStateBytes).
PreviousIsEarlier ==
  \A r \in storing \cup records :
    \E n \in 0..Len(r.currentState) - 1 :
      r.previousState = SubSeq(r.currentState, 1, n)

\* Clients that wait for an answer before they send a key again see an entity
\* that applies each update at most once, and loses none, also across
\* continue-as-new: the validator and the drain let no update slip in between
\* the state that is compressed and the end of the run.
Serial == INSTANCE SerialEntity
            WITH state <- currentState,
                 acknowledged <- {u \in Update : pc[u] = "ok"}

ImplementsSerialEntity == Serial!Spec

\* An update that was let in is answered, whoever else competes for the mutex
\* (Lock's wait, the deferred Unlock on every return).  The exception is a run
\* that was cancelled in its loop.
EveryUpdateAnswered ==
  \A u \in Update : InFlight(u) ~> pc[u] \in Answered \/ main = "stuck"

\* Once a run has reached its threshold it continues as new, pending updates or
\* not (the loop, the drain), unless it is cancelled or its compression fails.
ContinuesAsNew ==
  ws.requestsBeforeCAN > 0 /\ ws.requestCount >= ws.requestsBeforeCAN
    ~> run > 1 \/ main \in {"stuck", "failed"}

-------------------------------------------------------------------------------
(***************************************************************************)
(* What comments, docs and tests say and some behaviours of the code break *)
(***************************************************************************)

\* No key is applied twice: a test of a repeated update says it "Should return
\* same state, not increment again".  The key is looked up before the mutex is
\* taken and recorded before it is released.
AtMostOnce ==
  \A u, v \in Range(currentState) :
    u # v /\ key[u] # NoKey => key[u] # key[v]

\* What a client was told was applied is in the state.  It would follow from an
\* engine initialized "with current workflow state" on every replay, and from a
\* validator that "prevents updates during continue-as-new".
AckedNotLost == \A u \in Update : pc[u] = "ok" => u \in Range(currentState)

\* "Only one event is processed at a time": the mutex is released when an
\* activity times out, the engine call it began goes on.
OneEventAtATime ==
  \A u, v \in Update :
    engineCall[u] # NotCalled /\ engineCall[v] # NotCalled => u = v

\* A new run starts with the "preserved sequence + cutoff" and metadata that
\* NewWorkflowStateForContinuation was given.
ContinuationPreserved ==
  [][run' # run =>
       /\ ws'.sequenceNumber = ws.sequenceNumber
       /\ ws'.entityMetadata = ws.entityMetadata
       /\ ws'.idempotencyCutoff = GetCutoffForContinuation(ws)]_vars
===============================================================================
