------------------------- MODULE EntityWorkflowProofs -------------------------
(***************************************************************************)
(* What an entity workflow promises for any number of updates, any keys    *)
(* and callers, any threshold and every fault.                             *)
(***************************************************************************)
EXTENDS EntityWorkflow, FiniteSetTheorems, TLAPS

USE EntityWorkflowAssumption, WorkflowStateAssumption, IdempotencyAssumption,
    AuthorizationAssumption

Location == {"idle", "locking", "activity"} \cup Answered

\* The part of the type invariant the control depends on.  The pending count is
\* an integer here: that it is a natural number follows from PendingAccounted.
ControlBookkeeping ==
  [requestCount : Nat, pendingUpdates : Int,
   processedRequests : [Key -> 0..MaxTime],
   requestsBeforeCAN : {0, RequestsBeforeCAN},
   idempotencyCutoff : 0..MaxTime, sequenceNumber : Nat,
   entityMetadata : EntityMetadata \cup {NoMetadata}]

ControlTypeOK ==
  /\ pc \in [Update -> Location]
  /\ lock \in Update \cup {NoOne}
  /\ ws \in ControlBookkeeping
  /\ sequence \in [Update -> Nat]
  /\ now \in 1..MaxTime

\* The updates let in and not answered.
Pending == {u \in Update : InFlight(u)}

LEMMA InitControl == Init => ControlTypeOK
  <1> SUFFICES ASSUME Init PROVE ControlTypeOK
    OBVIOUS
  <1>1. pc \in [Update -> Location]
    BY DEF Init, Location
  <1>2. lock \in Update \cup {NoOne}
    BY DEF Init
  <1>3. sequence \in [Update -> Nat]
    BY DEF Init
  <1>4. now \in 1..MaxTime
    BY DEF Init
  <1>5. ws \in ControlBookkeeping
    BY DEF Init, NewWorkflowState, NewWorkflowStateForContinuation,
           NoneProcessed, ControlBookkeeping
  <1> QED
    BY <1>1, <1>2, <1>3, <1>4, <1>5 DEF ControlTypeOK

-----------------------------------------------------------------------------
(***************************************************************************)
(* Every step is, for the mutex and the counts, of one of six kinds.       *)
(***************************************************************************)
Untouched ==
  /\ UNCHANGED <<pc, lock, ws, sequence>>
  /\ main = "failed" => main' = "failed"
  /\ now' \in 1..MaxTime

TurnedAway(u) ==
  /\ pc[u] = "idle"
  /\ \E a \in {"unauthorized", "duplicate"} : pc' = [pc EXCEPT ![u] = a]
  /\ \/ ws' = ws
     \/ Authorized(u) /\ ws' = Claimed(u)
  /\ UNCHANGED <<lock, sequence, main, now>>

LetIn(u) ==
  /\ pc[u] = "idle"
  /\ ws.requestCount < ws.requestsBeforeCAN
  /\ Authorized(u)
  /\ ws' = Counted(Claimed(u))
  /\ sequence' = [sequence EXCEPT ![u] = ws'.sequenceNumber]
  /\ lock' = IF lock = NoOne THEN u ELSE lock
  /\ pc' = [pc EXCEPT ![u] = IF lock = NoOne THEN "activity" ELSE "locking"]
  /\ UNCHANGED <<main, now>>

Resumed(u) ==
  /\ pc[u] = "locking"
  /\ lock = NoOne
  /\ lock' = u
  /\ pc' = [pc EXCEPT ![u] = "activity"]
  /\ UNCHANGED <<ws, sequence, main, now>>

Returned(u) ==
  /\ main # "failed"
  /\ pc[u] = "activity"
  /\ lock' = NoOne
  /\ \E a \in {"ok", "failed"} : pc' = [pc EXCEPT ![u] = a]
  /\ \E w \in ControlBookkeeping :
       /\ w = [ws EXCEPT !.processedRequests = w.processedRequests]
       /\ ws' = DecrementPendingUpdates(w)
  /\ UNCHANGED <<sequence, main, now>>

Ended ==
  /\ pc' = Abandoned
  /\ lock' = NoOne
  /\ \/ main' = "failed" /\ ws' = ws
     \/ ws' = Transported(ws)
  /\ UNCHANGED <<sequence, now>>

\* What each operation on the bookkeeping keeps.
LEMMA FieldsTyped ==
  ASSUME NEW w \in ControlBookkeeping
  PROVE  /\ w.pendingUpdates \in Int
         /\ w.requestCount \in Nat
         /\ w.sequenceNumber \in Nat
         /\ w.processedRequests \in [Key -> 0..MaxTime]
  BY DEF ControlBookkeeping

LEMMA DecrementTyped ==
  ASSUME NEW w \in ControlBookkeeping
  PROVE  DecrementPendingUpdates(w) \in ControlBookkeeping
  <1>1. w.pendingUpdates - 1 \in Int
    BY FieldsTyped
  <1> QED
    BY <1>1 DEF DecrementPendingUpdates, ControlBookkeeping

LEMMA CountedTyped ==
  ASSUME NEW w \in ControlBookkeeping
  PROVE  Counted(w) \in ControlBookkeeping
  <1>1. /\ w.pendingUpdates + 1 \in Int
        /\ w.requestCount + 1 \in Nat
        /\ w.sequenceNumber + 1 \in Nat
    BY FieldsTyped
  <1> QED
    BY <1>1 DEF Counted, ControlBookkeeping

LEMMA MarkTyped ==
  ASSUME NEW w \in ControlBookkeeping, NEW k \in Key \cup {NoKey},
         now \in 1..MaxTime
  PROVE  MarkRequestProcessed(w, k, now) \in ControlBookkeeping
  <1>1. w.processedRequests \in [Key -> 0..MaxTime] /\ now \in 0..MaxTime
    BY FieldsTyped
  <1>2. CASE k = NoKey
    BY <1>2 DEF MarkRequestProcessed
  <1>3. CASE k \in Key
    <2>1. [w.processedRequests EXCEPT ![k] = now] \in [Key -> 0..MaxTime]
      BY <1>1
    <2>2. MarkRequestProcessed(w, k, now) =
            [w EXCEPT !.processedRequests =
               [w.processedRequests EXCEPT ![k] = now]]
      BY <1>3 DEF MarkRequestProcessed
    <2> QED
      BY <2>1, <2>2 DEF ControlBookkeeping
  <1> QED
    BY <1>2, <1>3

\* The one place the owner is set.
LEMMA ClaimedTyped ==
  ASSUME ControlTypeOK, NEW u \in Update, Authorized(u)
  PROVE  /\ Claimed(u) \in ControlBookkeeping
         /\ Claimed(u) = [ws EXCEPT !.entityMetadata = Claimed(u).entityMetadata]
  <1>1. ws \in ControlBookkeeping
    BY DEF ControlTypeOK
  <1>2. CASE ws.entityMetadata # NoMetadata
    BY <1>1, <1>2 DEF Claimed, ControlBookkeeping
  <1>3. CASE ws.entityMetadata = NoMetadata
    <2> DEFINE m == InitializeFromRequest(caller[u])
    <2>1. caller[u] \in Identity /\ ValidateRequestContext(caller[u])
      BY <1>3 DEF Authorized, ValidateRequestContext, RequestContext
    <2>2. m \in EntityMetadata
      BY <2>1 DEF InitializeFromRequest, ValidateRequestContext, Identity,
                  EntityMetadata, RequiredField, IdentityField
    <2>3. Claimed(u) = [ws EXCEPT !.entityMetadata = m]
      BY <1>3 DEF Claimed, SetEntityMetadata
    <2> HIDE DEF m
    <2> QED
      BY <1>1, <2>2, <2>3 DEF ControlBookkeeping
  <1> QED
    BY <1>2, <1>3

LEMMA ReturnKind ==
  ASSUME ControlTypeOK, NEW u \in Update, Answer(u)
  PROVE  Returned(u)
  <1>1. CASE EngineReturns(u)
    <2> DEFINE w == MarkRequestProcessed(ws, key[u], now)
    <2>0. ws \in ControlBookkeeping /\ now \in 1..MaxTime
      BY DEF ControlTypeOK
    <2>1. w \in ControlBookkeeping
      BY <2>0, MarkTyped
    <2>2. w = [ws EXCEPT !.processedRequests = w.processedRequests]
      BY <2>0 DEF ControlBookkeeping, MarkRequestProcessed
    <2>3. Return(u, "ok", w) /\ pc[u] = "activity" /\ main # "failed"
      BY <1>1 DEF EngineReturns, Scheduled
    <2>4. UNCHANGED <<sequence, main, now>>
      BY <1>1 DEF EngineReturns, mainVars, time
    <2> QED
      BY <2>1, <2>2, <2>3, <2>4 DEF Returned, Return
  <1>2. CASE EngineRefuses(u) \/ ActivityTimesOut(u)
    <2>1. ws \in ControlBookkeeping
      BY DEF ControlTypeOK
    <2>2. ws = [ws EXCEPT !.processedRequests = ws.processedRequests]
      BY <2>1 DEF ControlBookkeeping
    <2>3. Return(u, "failed", ws) /\ pc[u] = "activity" /\ main # "failed"
      BY <1>2 DEF EngineRefuses, ActivityTimesOut, Scheduled
    <2>4. UNCHANGED <<sequence, main, now>>
      BY <1>2 DEF EngineRefuses, ActivityTimesOut, mainVars, time
    <2> QED
      BY <2>1, <2>2, <2>3, <2>4 DEF Returned, Return
  <1> QED
    BY <1>1, <1>2 DEF Answer

\* A lost workflow task is a replay, but for the row it leaves behind.
LEMMA ReplayKinds ==
  Replay \/ (\E u \in Update : LoseTask(u)) => Replayed
  BY DEF Replay, LoseTask

LEMMA StepKind ==
  ASSUME ControlTypeOK, [Next]_vars
  PROVE  \/ Untouched
         \/ Ended
         \/ \E u \in Update : \/ TurnedAway(u)
                              \/ LetIn(u)
                              \/ Resumed(u)
                              \/ Returned(u)
  <1> USE DEF ControlTypeOK, mainVars, time, updateVars, runVars
  <1>1. ASSUME NEW u \in Update, RefuseUnauthorized(u) PROVE TurnedAway(u)
    <2>1. pc[u] = "idle" /\ pc' = [pc EXCEPT ![u] = "unauthorized"]
      BY <1>1 DEF RefuseUnauthorized, Admitted
    <2>2. ws' = ws /\ UNCHANGED <<lock, sequence, main, now>>
      BY <1>1 DEF RefuseUnauthorized
    <2> QED
      BY <2>1, <2>2 DEF TurnedAway
  <1>2. ASSUME NEW u \in Update, AnswerDuplicate(u) PROVE TurnedAway(u)
    BY <1>2 DEF AnswerDuplicate, Admitted, TurnedAway
  <1>3. ASSUME NEW u \in Update, Accept(u) PROVE LetIn(u)
    BY <1>3 DEF Accept, Admitted, LetIn
  <1>4. ASSUME NEW u \in Update, TakeLock(u) PROVE Resumed(u)
    BY <1>4 DEF TakeLock, Resumed
  <1>5. ASSUME NEW u \in Update, EngineBegin(u) \/ LateCall(u)
        PROVE  Untouched
    BY <1>5 DEF EngineBegin, LateCall, Untouched
  <1>6. CASE Break \/ Drained \/ Suggest \/ Replayed
    BY <1>6 DEF Break, Drained, Suggest, Replayed, Untouched
  <1>7. CASE ContinueAsNew
    BY <1>7 DEF ContinueAsNew, Ended, Transported
  <1>8. CASE CompressFails
    BY <1>8 DEF CompressFails, Fail, Ended
  <1>9. CASE Cancel
    <2>1. CASE main = "await" /\ ~ShouldContinueAsNew(ws, suggested)
      BY <1>9, <2>1 DEF Cancel, Untouched
    <2>2. CASE ~(main = "await" /\ ~ShouldContinueAsNew(ws, suggested))
      BY <1>9, <2>2 DEF Cancel, Fail, Ended
    <2> QED
      BY <2>1, <2>2
  <1>10. CASE Tick
    BY <1>10 DEF Tick, Untouched
  <1>11. ASSUME NEW r \in storing, RecordStored(r) \/ RecordDropped(r)
         PROVE  Untouched
    BY <1>11 DEF RecordStored, RecordDropped, Untouched
  <1>12. CASE UNCHANGED vars
    BY <1>12 DEF vars, Untouched
  <1> QED
    BY <1>1, <1>2, <1>3, <1>4, <1>5, <1>6, <1>7, <1>8, <1>9, <1>10, <1>11,
       <1>12, ReturnKind, ReplayKinds DEF Next, Step

LEMMA NextControl ==
  ASSUME ControlTypeOK, [Next]_vars
  PROVE  ControlTypeOK'
  <1> USE DEF ControlTypeOK
  <1>1. CASE Untouched
    BY <1>1 DEF Untouched
  <1>2. CASE Ended
    <2>1. pc' \in [Update -> Location]
      BY <1>2 DEF Ended, Abandoned, Location, Answered
    <2>2. ws' \in ControlBookkeeping
      BY <1>2 DEF Ended, Transported, NoneProcessed, ControlBookkeeping
    <2> QED
      BY <1>2, <2>1, <2>2 DEF Ended
  <1>3. ASSUME NEW u \in Update, TurnedAway(u) PROVE ControlTypeOK'
    <2>1. pc' \in [Update -> Location]
      BY <1>3 DEF TurnedAway, Location, Answered
    <2>2. ws' \in ControlBookkeeping
      BY <1>3, ClaimedTyped DEF TurnedAway
    <2> QED
      BY <1>3, <2>1, <2>2 DEF TurnedAway
  <1>4. ASSUME NEW u \in Update, LetIn(u) PROVE ControlTypeOK'
    <2>1. pc' \in [Update -> Location]
      BY <1>4 DEF LetIn, Location
    <2>2. ws' \in ControlBookkeeping
      BY <1>4, ClaimedTyped, CountedTyped DEF LetIn
    <2>3. sequence' \in [Update -> Nat]
      BY <1>4, <2>2 DEF LetIn, ControlBookkeeping
    <2> QED
      BY <1>4, <2>1, <2>2, <2>3 DEF LetIn
  <1>5. ASSUME NEW u \in Update, Resumed(u) PROVE ControlTypeOK'
    BY <1>5 DEF Resumed, Location
  <1>6. ASSUME NEW u \in Update, Returned(u) PROVE ControlTypeOK'
    <2>1. pc' \in [Update -> Location]
      BY <1>6 DEF Returned, Location, Answered
    <2>2. ws' \in ControlBookkeeping
      <3>1. PICK w \in ControlBookkeeping : ws' = DecrementPendingUpdates(w)
        BY <1>6 DEF Returned
      <3> QED
        BY <3>1, DecrementTyped
    <2> QED
      BY <1>6, <2>1, <2>2 DEF Returned
  <1> QED
    BY <1>1, <1>2, <1>3, <1>4, <1>5, <1>6, StepKind

-----------------------------------------------------------------------------
(***************************************************************************)
(* The mutex.  LockDiscipline is inductive once the types are known.       *)
(***************************************************************************)
LEMMA InitLock == Init => LockDiscipline
  BY DEF Init, LockDiscipline

LEMMA NextLock ==
  ASSUME ControlTypeOK, LockDiscipline, [Next]_vars
  PROVE  LockDiscipline'
  <1> USE DEF ControlTypeOK, LockDiscipline
  <1>1. CASE Untouched
    BY <1>1 DEF Untouched
  <1>2. CASE Ended
    BY <1>2 DEF Ended, Abandoned, InFlight
  <1>3. ASSUME NEW u \in Update, TurnedAway(u) PROVE LockDiscipline'
    BY <1>3 DEF TurnedAway
  <1>4. ASSUME NEW u \in Update, LetIn(u) PROVE LockDiscipline'
    BY <1>4 DEF LetIn
  <1>5. ASSUME NEW u \in Update, Resumed(u) PROVE LockDiscipline'
    BY <1>5 DEF Resumed
  <1>6. ASSUME NEW u \in Update, Returned(u) PROVE LockDiscipline'
    BY <1>6 DEF Returned
  <1> QED
    BY <1>1, <1>2, <1>3, <1>4, <1>5, <1>6, StepKind

\* The mutex is held by exactly the update whose activity is awaited, whatever
\* times out, is replayed, is cancelled or ends.
THEOREM EntityLockDiscipline == Spec => []LockDiscipline
  <1>1. Init => ControlTypeOK /\ LockDiscipline
    BY InitControl, InitLock
  <1>2. ControlTypeOK /\ LockDiscipline /\ [Next]_vars
          => (ControlTypeOK /\ LockDiscipline)'
    BY NextControl, NextLock
  <1> QED
    BY <1>1, <1>2, PTL DEF Spec

-----------------------------------------------------------------------------
(***************************************************************************)
(* What each kind of step does to the counts.                              *)
(***************************************************************************)
LEMMA TurnedAwayCounts ==
  ASSUME ControlTypeOK, NEW u \in Update, TurnedAway(u)
  PROVE  /\ ws'.requestCount = ws.requestCount
         /\ ws'.requestsBeforeCAN = ws.requestsBeforeCAN
         /\ ws'.pendingUpdates = ws.pendingUpdates
         /\ ws'.sequenceNumber = ws.sequenceNumber
  <1>1. CASE ws' = ws
    BY <1>1
  <1>2. CASE Authorized(u) /\ ws' = Claimed(u)
    <2>1. PICK m : ws' = [ws EXCEPT !.entityMetadata = m]
      BY <1>2, ClaimedTyped
    <2>2. ws \in ControlBookkeeping
      BY DEF ControlTypeOK
    <2> QED
      BY <2>1, <2>2 DEF ControlBookkeeping
  <1> QED
    BY <1>1, <1>2 DEF TurnedAway

LEMMA LetInCounts ==
  ASSUME ControlTypeOK, NEW u \in Update, LetIn(u)
  PROVE  /\ ws'.requestCount = ws.requestCount + 1
         /\ ws'.requestsBeforeCAN = ws.requestsBeforeCAN
         /\ ws'.pendingUpdates = ws.pendingUpdates + 1
         /\ ws'.sequenceNumber = ws.sequenceNumber + 1
  <1>1. ws' = Counted(Claimed(u)) /\ ws \in ControlBookkeeping
    BY DEF LetIn, ControlTypeOK
  <1>2. Claimed(u) = [ws EXCEPT !.entityMetadata = Claimed(u).entityMetadata]
    BY ClaimedTyped DEF LetIn
  <1> QED
    BY <1>1, <1>2 DEF ControlBookkeeping, Counted

LEMMA ReturnedCounts ==
  ASSUME ControlTypeOK, NEW u \in Update, Returned(u)
  PROVE  /\ ws'.requestCount = ws.requestCount
         /\ ws'.requestsBeforeCAN = ws.requestsBeforeCAN
         /\ ws'.pendingUpdates = ws.pendingUpdates - 1
         /\ ws'.sequenceNumber = ws.sequenceNumber
  <1>1. PICK w \in ControlBookkeeping :
          /\ w = [ws EXCEPT !.processedRequests = w.processedRequests]
          /\ ws' = DecrementPendingUpdates(w)
    BY DEF Returned
  <1>2. ws \in ControlBookkeeping
    BY DEF ControlTypeOK
  <1> QED
    BY <1>1, <1>2 DEF ControlBookkeeping, DecrementPendingUpdates

LEMMA CountsTyped ==
  ASSUME ControlTypeOK
  PROVE  /\ ws.requestCount \in Nat
         /\ ws.requestsBeforeCAN \in Nat
         /\ ws.pendingUpdates \in Int
         /\ ws.sequenceNumber \in Nat
  BY DEF ControlTypeOK, ControlBookkeeping

-----------------------------------------------------------------------------
(***************************************************************************)
(* The threshold.                                                          *)
(***************************************************************************)
LEMMA NextThreshold ==
  ASSUME ControlTypeOK, AcceptedWithinThreshold, [Next]_vars
  PROVE  AcceptedWithinThreshold'
  <1> USE CountsTyped DEF AcceptedWithinThreshold
  <1>1. CASE Untouched
    BY <1>1 DEF Untouched
  <1>2. CASE Ended
    BY <1>2 DEF Ended, Transported
  <1>3. ASSUME NEW u \in Update, TurnedAway(u)
        PROVE  AcceptedWithinThreshold'
    BY <1>3, TurnedAwayCounts
  <1>4. ASSUME NEW u \in Update, LetIn(u) PROVE AcceptedWithinThreshold'
    <2>1. ws.requestCount < ws.requestsBeforeCAN
      BY <1>4 DEF LetIn
    <2> QED
      BY <1>4, <2>1, LetInCounts
  <1>5. ASSUME NEW u \in Update, Resumed(u) PROVE AcceptedWithinThreshold'
    BY <1>5 DEF Resumed
  <1>6. ASSUME NEW u \in Update, Returned(u) PROVE AcceptedWithinThreshold'
    BY <1>6, ReturnedCounts
  <1> QED
    BY <1>1, <1>2, <1>3, <1>4, <1>5, <1>6, StepKind

\* However many updates compete, a run lets in no more than its threshold.
THEOREM EntityWithinThreshold == Spec => []AcceptedWithinThreshold
  <1>1. Init => ControlTypeOK /\ AcceptedWithinThreshold
    BY InitControl DEF Init, AcceptedWithinThreshold, NewWorkflowState,
                       NewWorkflowStateForContinuation
  <1>2. ControlTypeOK /\ AcceptedWithinThreshold /\ [Next]_vars
          => (ControlTypeOK /\ AcceptedWithinThreshold)'
    BY NextControl, NextThreshold
  <1> QED
    BY <1>1, <1>2, PTL DEF Spec

-----------------------------------------------------------------------------
(***************************************************************************)
(* Sequence numbers.  A run that still lets updates in has given out every *)
(* number up to its counter and none above; the counter falls back to zero *)
(* at continue-as-new, together with the threshold, and from then on no    *)
(* update is let in.                                                       *)
(***************************************************************************)
NumbersGivenOut ==
  ws.requestsBeforeCAN # 0 =>
    \A u \in Update : WasLetIn(u) => sequence[u] <= ws.sequenceNumber

NumberedInv == NumbersGivenOut /\ NumberedOnce

LEMMA InitNumbered == Init => NumberedInv
  BY DEF Init, NumberedInv, NumbersGivenOut, NumberedOnce, WasLetIn, InFlight

LEMMA NextNumbered ==
  ASSUME ControlTypeOK, NumberedInv, [Next]_vars
  PROVE  NumberedInv'
  <1> USE CountsTyped DEF NumberedInv, NumbersGivenOut, NumberedOnce
  <1>0. pc \in [Update -> Location] /\ sequence \in [Update -> Nat]
    BY DEF ControlTypeOK
  \* Nobody is let in and no number changes.
  <1>a. ASSUME \A v \in Update : WasLetIn(v)' => WasLetIn(v),
               sequence' = sequence,
               \/ ws'.requestsBeforeCAN = 0
               \/ /\ ws'.requestsBeforeCAN = ws.requestsBeforeCAN
                  /\ ws'.sequenceNumber = ws.sequenceNumber
        PROVE  NumberedInv'
    BY <1>a
  <1>1. CASE Untouched
    BY <1>1, <1>a DEF Untouched, WasLetIn, InFlight
  <1>2. CASE Ended
    <2>1. \A u \in Update : WasLetIn(u)' => WasLetIn(u)
      BY <1>0, <1>2 DEF Ended, Abandoned, WasLetIn, InFlight
    <2> QED
      BY <1>2, <2>1, <1>a DEF Ended, Transported
  <1>3. ASSUME NEW u \in Update, TurnedAway(u) PROVE NumberedInv'
    <2>1. \A v \in Update : WasLetIn(v)' => WasLetIn(v)
      BY <1>0, <1>3 DEF TurnedAway, WasLetIn, InFlight
    <2>2. sequence' = sequence
      BY <1>3 DEF TurnedAway
    <2> QED
      BY <1>3, <2>1, <2>2, <1>a, TurnedAwayCounts
  <1>4. ASSUME NEW u \in Update, LetIn(u) PROVE NumberedInv'
    <2>1. ws.requestsBeforeCAN # 0
      BY <1>4 DEF LetIn
    <2>2. \A v \in Update : WasLetIn(v)' => v = u \/ WasLetIn(v)
      BY <1>0, <1>4 DEF LetIn, WasLetIn, InFlight
    <2>3. ws'.sequenceNumber = ws.sequenceNumber + 1
      BY <1>4, LetInCounts
    <2>4. /\ sequence'[u] = ws.sequenceNumber + 1
          /\ \A v \in Update : v # u => sequence'[v] = sequence[v]
      <3>1. sequence' = [sequence EXCEPT ![u] = ws'.sequenceNumber]
        BY <1>4 DEF LetIn
      <3> QED
        BY <1>0, <2>3, <3>1
    <2>5. \A v \in Update :
            v # u /\ WasLetIn(v)' => sequence'[v] <= ws.sequenceNumber
      BY <2>1, <2>2, <2>4
    <2>6. NumbersGivenOut'
      <3>1. \A v \in Update : sequence'[v] \in Nat
        BY NextControl DEF ControlTypeOK
      <3>2. ws.sequenceNumber \in Nat
        BY CountsTyped
      <3>3. \A v \in Update : WasLetIn(v)' => sequence'[v] <= ws'.sequenceNumber
        BY <2>3, <2>4, <2>5, <3>1, <3>2
      <3> QED
        BY <3>3
    <2>7. NumberedOnce'
      BY <1>0, <2>2, <2>4, <2>5
    <2> QED
      BY <2>6, <2>7
  <1>5. ASSUME NEW u \in Update, Resumed(u) PROVE NumberedInv'
    BY <1>0, <1>5, <1>a DEF Resumed, WasLetIn, InFlight
  <1>6. ASSUME NEW u \in Update, Returned(u) PROVE NumberedInv'
    <2>1. \A v \in Update : WasLetIn(v)' => WasLetIn(v)
      BY <1>0, <1>6 DEF Returned, WasLetIn, InFlight
    <2>2. sequence' = sequence
      BY <1>6 DEF Returned
    <2> QED
      BY <1>6, <2>1, <2>2, <1>a, ReturnedCounts
  <1> QED
    BY <1>1, <1>2, <1>3, <1>4, <1>5, <1>6, StepKind

\* No two updates of an entity, let in by any of its runs, share a number.
THEOREM EntityNumberedOnce == Spec => []NumberedOnce
  <1>1. Init => ControlTypeOK /\ NumberedInv
    BY InitControl, InitNumbered
  <1>2. ControlTypeOK /\ NumberedInv /\ [Next]_vars
          => (ControlTypeOK /\ NumberedInv)'
    BY NextControl, NextNumbered
  <1>3. NumberedInv => NumberedOnce
    BY DEF NumberedInv
  <1> QED
    BY <1>1, <1>2, <1>3, PTL DEF Spec

-----------------------------------------------------------------------------
(***************************************************************************)
(* The pending count, and that it is a natural number.                     *)
(***************************************************************************)
PendingInv == PendingAccounted /\ ws.pendingUpdates \in Nat

LEMMA PendingFinite ==
  /\ IsFiniteSet(Pending)
  /\ Cardinality(Pending) \in Nat
  <1>1. Pending \in SUBSET Update
    BY DEF Pending
  <1>2. IsFiniteSet(Pending)
    BY <1>1, FS_Subset
  <1> QED
    BY <1>2, FS_CardinalityType

LEMMA InitPending == Init => PendingInv
  <1> SUFFICES ASSUME Init PROVE PendingInv
    OBVIOUS
  <1>1. Pending = {}
    BY DEF Init, Pending, InFlight
  <1>2. Cardinality(Pending) = 0
    BY <1>1, FS_EmptySet
  <1>3. ws.pendingUpdates = 0
    BY DEF Init, NewWorkflowState, NewWorkflowStateForContinuation
  <1> QED
    BY <1>2, <1>3 DEF PendingInv, PendingAccounted, Pending

LEMMA NextPending ==
  ASSUME ControlTypeOK, PendingInv, [Next]_vars
  PROVE  PendingInv'
  <1> USE CountsTyped DEF PendingInv
  <1>0. pc \in [Update -> Location]
    BY DEF ControlTypeOK
  <1>a. main # "failed" => ws.pendingUpdates = Cardinality(Pending)
    BY DEF PendingAccounted, Pending
  <1>b. ASSUME main' # "failed" => ws'.pendingUpdates = Cardinality(Pending')
        PROVE  PendingAccounted'
    BY <1>b DEF PendingAccounted, Pending
  <1>1. CASE Untouched
    <2>1. Pending' = Pending
      BY <1>1 DEF Untouched, Pending, InFlight
    <2> QED
      BY <1>1, <2>1, <1>a, <1>b DEF Untouched
  <1>2. CASE Ended
    <2>1. Pending' = {}
      BY <1>0, <1>2 DEF Ended, Abandoned, Pending, InFlight
    <2>2. Cardinality(Pending') = 0
      BY <2>1, FS_EmptySet
    <2> QED
      BY <1>2, <2>2, <1>b DEF Ended, Transported
  <1>3. ASSUME NEW u \in Update, TurnedAway(u) PROVE PendingInv'
    <2>1. Pending' = Pending
      BY <1>0, <1>3 DEF TurnedAway, Pending, InFlight
    <2>2. main' = main
      BY <1>3 DEF TurnedAway
    <2> QED
      BY <1>3, <2>1, <2>2, <1>a, <1>b, TurnedAwayCounts
  <1>4. ASSUME NEW u \in Update, LetIn(u) PROVE PendingInv'
    <2>1. Pending' = Pending \cup {u} /\ u \notin Pending
      BY <1>0, <1>4 DEF LetIn, Pending, InFlight
    <2>2. Cardinality(Pending') = Cardinality(Pending) + 1
      BY <2>1, PendingFinite, FS_AddElement
    <2>3. main' = main
      BY <1>4 DEF LetIn
    <2> QED
      BY <1>4, <2>2, <2>3, <1>a, <1>b, LetInCounts
  <1>5. ASSUME NEW u \in Update, Resumed(u) PROVE PendingInv'
    <2>1. Pending' = Pending
      BY <1>0, <1>5 DEF Resumed, Pending, InFlight
    <2> QED
      BY <1>5, <2>1, <1>a, <1>b DEF Resumed
  <1>6. ASSUME NEW u \in Update, Returned(u) PROVE PendingInv'
    <2>1. Pending' = Pending \ {u} /\ u \in Pending
      BY <1>0, <1>6 DEF Returned, Pending, InFlight
    <2>2. Cardinality(Pending') = Cardinality(Pending) - 1
      BY <2>1, PendingFinite, FS_RemoveElement
    <2>3. Cardinality(Pending') \in Nat
      BY <2>1, PendingFinite, FS_RemoveElement, FS_CardinalityType
    <2>4. main' = main /\ main # "failed"
      BY <1>6 DEF Returned
    <2> QED
      BY <1>6, <2>2, <2>3, <2>4, <1>a, <1>b, ReturnedCounts
  <1> QED
    BY <1>1, <1>2, <1>3, <1>4, <1>5, <1>6, StepKind

\* The count the drain waits on is the number of updates let in and not
\* answered, so that it is zero only when none is.
THEOREM EntityPendingAccounted == Spec => []PendingAccounted
  <1>1. Init => ControlTypeOK /\ PendingInv
    BY InitControl, InitPending
  <1>2. ControlTypeOK /\ PendingInv /\ [Next]_vars
          => (ControlTypeOK /\ PendingInv)'
    BY NextControl, NextPending
  <1>3. PendingInv => PendingAccounted
    BY DEF PendingInv
  <1> QED
    BY <1>1, <1>2, <1>3, PTL DEF Spec

-----------------------------------------------------------------------------
(***************************************************************************)
(* The states, the records and the rest of the types.                      *)
(***************************************************************************)
StatesTypeOK ==
  /\ currentState \in States
  /\ engineState \in States
  /\ initialState \in States
  /\ compressing \in States
  /\ previous \in [Update -> States]
  /\ engineCall \in [Update -> States \cup {NotCalled}]
  /\ sequence \in [Update -> Nat]
  /\ \A r \in storing \cup records :
       /\ r.sequenceNumber \in Nat
       /\ {r.currentState, r.previousState} \subseteq States

MainTypeOK ==
  /\ main \in {"await", "drain", "compress", "stuck", "failed"}
  /\ suggested \in BOOLEAN
  /\ run \in 1..MaxRuns
  /\ replays \in 0..MaxReplays

LEMMA InitStates == Init => StatesTypeOK /\ MainTypeOK
  <1> SUFFICES ASSUME Init PROVE StatesTypeOK /\ MainTypeOK
    OBVIOUS
  <1>1. StatesTypeOK
    BY DEF Init, StatesTypeOK, States
  <1>2. suggested \in BOOLEAN
    BY DEF Init
  <1>3. /\ main \in {"await", "drain", "compress", "stuck", "failed"}
        /\ run \in 1..MaxRuns
        /\ replays \in 0..MaxReplays
    BY DEF Init
  <1> QED
    BY <1>1, <1>2, <1>3 DEF MainTypeOK

LEMMA NextMain ==
  ASSUME MainTypeOK, [Next]_vars
  PROVE  MainTypeOK'
  <1> USE DEF MainTypeOK, time, runVars, mainVars
  <1>1. ASSUME NEW u \in Update, Step(u) PROVE MainTypeOK'
    BY <1>1 DEF Step, RefuseUnauthorized, AnswerDuplicate, Accept, TakeLock,
                EngineBegin, Answer, EngineReturns, EngineRefuses,
                ActivityTimesOut, LateCall
  <1>2. CASE Break \/ Drained \/ CompressFails
    BY <1>2 DEF Break, Drained, CompressFails, Fail
  <1>3. CASE ContinueAsNew
    <2>1. run' \in 1..MaxRuns
      BY <1>3 DEF ContinueAsNew
    <2>2. main' = "await" /\ suggested' = FALSE /\ replays' = replays
      BY <1>3 DEF ContinueAsNew
    <2> QED
      BY <2>1, <2>2
  <1>4. CASE Suggest
    BY <1>4 DEF Suggest
  <1>5. CASE Cancel
    BY <1>5 DEF Cancel, Fail
  <1>6. CASE Replayed
    BY <1>6 DEF Replayed
  <1>7. CASE Tick
    BY <1>7 DEF Tick
  <1>8. ASSUME NEW r \in storing, RecordStored(r) \/ RecordDropped(r)
        PROVE  MainTypeOK'
    BY <1>8 DEF RecordStored, RecordDropped
  <1>9. CASE UNCHANGED vars
    BY <1>9 DEF vars
  <1> QED
    BY <1>1, <1>2, <1>3, <1>4, <1>5, <1>6, <1>7, <1>8, <1>9, ReplayKinds DEF Next

LEMMA NextStates ==
  ASSUME ControlTypeOK, StatesTypeOK, [Next]_vars
  PROVE  StatesTypeOK'
  <1>0. sequence' \in [Update -> Nat]
    BY NextControl DEF ControlTypeOK
  <1> USE DEF StatesTypeOK, States, engine, runVars, updateVars, storage
  <1>1. ASSUME NEW u \in Update,
               RefuseUnauthorized(u) \/ AnswerDuplicate(u) \/ TakeLock(u)
                 \/ ActivityTimesOut(u)
        PROVE  StatesTypeOK'
    BY <1>0, <1>1 DEF RefuseUnauthorized, AnswerDuplicate, TakeLock,
                      ActivityTimesOut
  <1>2. ASSUME NEW u \in Update, Accept(u) PROVE StatesTypeOK'
    BY <1>0, <1>2 DEF Accept
  <1>3. ASSUME NEW u \in Update, EngineBegin(u) PROVE StatesTypeOK'
    BY <1>0, <1>3 DEF EngineBegin
  <1>4. ASSUME NEW u \in Update, EngineReturns(u) PROVE StatesTypeOK'
    <2> DEFINE newState == Append(engineCall[u], u)
               new == Record(u, newState)
    <2>1. newState \in Seq(Update)
      BY <1>4 DEF EngineReturns
    <2>2. \A r \in storing' : r \in storing \/ r = new
      BY <1>4 DEF EngineReturns
    <2>3. /\ new.sequenceNumber \in Nat
          /\ {new.currentState, new.previousState} \subseteq Seq(Update)
      BY <2>1 DEF Record
    <2>4. \A r \in (storing \cup records)' :
            /\ r.sequenceNumber \in Nat
            /\ {r.currentState, r.previousState} \subseteq Seq(Update)
      <3>1. records' = records
        BY <1>4 DEF EngineReturns
      <3> HIDE DEF new
      <3> QED
        BY <2>2, <2>3, <3>1
    <2>5. engineState' = newState /\ currentState' = newState
      BY <1>4 DEF EngineReturns
    <2>6. engineCall' \in [Update -> Seq(Update) \cup {NotCalled}]
      BY <1>4 DEF EngineReturns
    <2>7. UNCHANGED <<initialState, compressing, previous>>
      BY <1>4 DEF EngineReturns
    <2> QED
      BY <1>0, <2>1, <2>4, <2>5, <2>6, <2>7
  <1>5. ASSUME NEW u \in Update, EngineRefuses(u) PROVE StatesTypeOK'
    BY <1>0, <1>5 DEF EngineRefuses
  <1>6. ASSUME NEW u \in Update, LateCall(u) PROVE StatesTypeOK'
    BY <1>0, <1>6 DEF LateCall
  <1>7. CASE Break \/ Drained \/ Suggest \/ Tick
    BY <1>0, <1>7 DEF Break, Drained, Suggest, Tick
  <1>8. CASE ContinueAsNew
    BY <1>0, <1>8 DEF ContinueAsNew, NoCall
  <1>9. CASE CompressFails \/ Cancel
    BY <1>0, <1>9 DEF CompressFails, Cancel, Fail, NoCall
  <1>10. ASSUME Replayed,
                \A r \in records' : /\ r.sequenceNumber \in Nat
                                    /\ {r.currentState, r.previousState} \subseteq States
         PROVE  StatesTypeOK'
    BY <1>0, <1>10 DEF Replayed, NoCall
  <1>a. CASE Replay
    BY <1>10, <1>a DEF Replay
  <1>b. ASSUME NEW u \in Update, LoseTask(u) PROVE StatesTypeOK'
    <2> DEFINE new == [sequenceNumber |-> Counted(Claimed(u)).sequenceNumber,
                       currentState |-> Append(engineState, u),
                       previousState |-> currentState]
    <2>1. Counted(Claimed(u)).sequenceNumber \in Nat
      BY <1>b, ClaimedTyped, CountedTyped, FieldsTyped DEF LoseTask
    <2>2. \A r \in records' : r \in records \/ r = new
      BY <1>b DEF LoseTask, Inserted
    <2>3. /\ new.sequenceNumber \in Nat
          /\ {new.currentState, new.previousState} \subseteq States
      BY <2>1
    <2> HIDE DEF new
    <2> QED
      BY <1>10, <1>b, <2>2, <2>3, ReplayKinds
  <1>11. ASSUME NEW r \in storing, RecordStored(r) \/ RecordDropped(r)
         PROVE  StatesTypeOK'
    BY <1>0, <1>11 DEF RecordStored, RecordDropped, Inserted
  <1>12. CASE UNCHANGED vars
    BY <1>0, <1>12 DEF vars
  <1> QED
    BY <1>1, <1>2, <1>3, <1>4, <1>5, <1>6, <1>7, <1>8, <1>9, <1>10, <1>11,
       <1>12, <1>a, <1>b DEF Next, Step, Answer

\* Every field holds what its type allows; the pending count never goes below
\* zero.
THEOREM EntityTypeCorrect == Spec => []TypeOK
  <1> DEFINE IInv == ControlTypeOK /\ PendingInv /\ StatesTypeOK /\ MainTypeOK
  <1>1. Init => IInv
    BY InitControl, InitPending, InitStates
  <1>2. IInv /\ [Next]_vars => IInv'
    BY NextControl, NextPending, NextStates, NextMain
  <1>3. IInv => TypeOK
    <2> SUFFICES ASSUME IInv PROVE TypeOK
      OBVIOUS
    <2>1. ws \in Bookkeeping
      BY DEF ControlTypeOK, ControlBookkeeping, PendingInv, Bookkeeping
    <2>2. /\ {currentState, engineState, initialState, compressing} \subseteq States
          /\ previous \in [Update -> States]
          /\ engineCall \in [Update -> States \cup {NotCalled}]
          /\ \A r \in storing \cup records :
               /\ r.sequenceNumber \in Nat
               /\ {r.currentState, r.previousState} \subseteq States
      BY DEF StatesTypeOK
    <2>3. suggested \in BOOLEAN
      BY DEF MainTypeOK
    <2>4. /\ main \in {"await", "drain", "compress", "stuck", "failed"}
          /\ run \in 1..MaxRuns
          /\ replays \in 0..MaxReplays
      BY DEF MainTypeOK
    <2>5. /\ now \in 1..MaxTime
          /\ lock \in Update \cup {NoOne}
          /\ pc \in [Update -> {"idle", "locking", "activity"} \cup Answered]
          /\ sequence \in [Update -> Nat]
      BY DEF ControlTypeOK, Location
    <2> QED
      BY <2>1, <2>2, <2>3, <2>4, <2>5 DEF TypeOK
  <1> QED
    BY <1>1, <1>2, <1>3, PTL DEF Spec
-----------------------------------------------------------------------------
(***************************************************************************)
(* The owner.  An entity changes hands only where it has no owner, and     *)
(* then no update is in flight and no state holds one of this run.         *)
(***************************************************************************)
owner == ws.entityMetadata
USE DEF owner

OwnedBy(m, u) == caller[u] = m /\ m # NoMetadata

\* The part of a state a run has added to the one it was started with.
AddedBy(m, initial, s) == \A i \in Len(initial) + 1 .. Len(s) : OwnedBy(m, s[i])

OwnerInv ==
  /\ \A u \in Update :
       InFlight(u) \/ engineCall[u] # NotCalled => OwnedBy(owner, u)
  /\ AddedBy(owner, initialState, currentState)
  /\ AddedBy(owner, initialState, engineState)
  /\ \A u \in Update :
       engineCall[u] # NotCalled => AddedBy(owner, initialState, engineCall[u])

LEMMA InitOwner == Init => OwnerInv
  BY DEF Init, OwnerInv, AddedBy, InFlight

\* Who passes the authorization is the owner from then on, and an owner stays.
LEMMA AuthorizedOwns ==
  ASSUME ControlTypeOK, NEW u \in Update, Authorized(u)
  PROVE  /\ caller[u] = Claimed(u).entityMetadata
         /\ caller[u] # NoMetadata
         /\ owner # NoMetadata =>
              Claimed(u).entityMetadata = owner
  <1>1. ws \in ControlBookkeeping
    BY DEF ControlTypeOK
  <1>2. caller[u] \in RequestContext
    OBVIOUS
  <1>3. CASE owner = NoMetadata
    <2>1. caller[u] \in Identity /\ ValidateRequestContext(caller[u])
      BY <1>2, <1>3 DEF Authorized, ValidateRequestContext, RequestContext
    <2>2. InitializeFromRequest(caller[u]) = caller[u]
      BY <2>1 DEF InitializeFromRequest, Identity
    <2>3. Claimed(u).entityMetadata = InitializeFromRequest(caller[u])
      BY <1>1, <1>3 DEF Claimed, SetEntityMetadata, ControlBookkeeping
    <2> QED
      BY <1>3, <2>1, <2>2, <2>3
  <1>4. CASE owner # NoMetadata
    <2>1. AuthorizeRequest(caller[u], owner)
      BY <1>4 DEF Authorized
    <2>2. caller[u] \in Identity
      BY <1>2, <2>1 DEF AuthorizeRequest, RequestContext
    <2>3. owner \in Identity
      BY <1>1, <1>4 DEF ControlBookkeeping, EntityMetadata
    <2>4. caller[u] = owner
      BY <2>1, <2>2, <2>3 DEF AuthorizeRequest, Identity
    <2>5. Claimed(u) = ws
      BY <1>4 DEF Claimed
    <2> QED
      BY <1>4, <2>4, <2>5
  <1> QED
    BY <1>3, <1>4

\* An answer leaves the owner alone.
LEMMA ReturnedOwner ==
  ASSUME ControlTypeOK, NEW u \in Update, Returned(u)
  PROVE  owner' = owner
  <1>1. PICK w \in ControlBookkeeping :
          /\ w = [ws EXCEPT !.processedRequests = w.processedRequests]
          /\ ws' = DecrementPendingUpdates(w)
    BY DEF Returned
  <1>2. ws \in ControlBookkeeping
    BY DEF ControlTypeOK
  <1> QED
    BY <1>1, <1>2 DEF ControlBookkeeping, DecrementPendingUpdates

\* A step that adds no caller of another keeps the invariant.
LEMMA OwnerKept ==
  ASSUME OwnerInv,
         owner # NoMetadata =>
           owner' = owner,
         \A u \in Update : InFlight(u)' => InFlight(u) \/ OwnedBy(owner', u),
         \A u \in Update : engineCall'[u] \in {engineCall[u], NotCalled},
         UNCHANGED <<initialState, currentState, engineState>>
  PROVE  OwnerInv'
  <1>1. \A u : OwnedBy(owner, u) => OwnedBy(owner', u)
    BY DEF OwnedBy
  <1>2. \A s : AddedBy(owner, initialState, s) =>
                AddedBy(owner', initialState', s)
    BY <1>1 DEF AddedBy
  <1>3. \A u \in Update :
           InFlight(u)' \/ engineCall'[u] # NotCalled => OwnedBy(owner', u)
    BY <1>1 DEF OwnerInv
  <1>4. \A u \in Update : engineCall'[u] # NotCalled =>
           AddedBy(owner', initialState', engineCall'[u])
    BY <1>2 DEF OwnerInv
  <1>5. /\ AddedBy(owner', initialState', currentState')
        /\ AddedBy(owner', initialState', engineState')
    BY <1>2 DEF OwnerInv
  <1> QED
    BY <1>3, <1>4, <1>5 DEF OwnerInv

\* The engine appends an update of the owner to what it read.
LEMMA OwnedAppend ==
  ASSUME StatesTypeOK, NEW u \in Update, engineCall[u] # NotCalled,
         AddedBy(owner, initialState, engineCall[u]), OwnedBy(owner, u)
  PROVE  AddedBy(owner, initialState, Append(engineCall[u], u))
  <1> DEFINE s == engineCall[u]
  <1>1. s \in Seq(Update) /\ initialState \in Seq(Update)
    BY DEF StatesTypeOK, States
  <1>2. /\ Len(Append(s, u)) = Len(s) + 1
        /\ Append(s, u)[Len(s) + 1] = u
        /\ \A i \in 1..Len(s) : Append(s, u)[i] = s[i]
    BY <1>1
  <1>3. Len(s) \in Nat /\ Len(initialState) \in Nat
    BY <1>1
  <1>4. \A i \in Len(initialState) + 1 .. Len(s) : OwnedBy(owner, s[i])
    BY DEF AddedBy
  <1> HIDE DEF s
  <1>5. ASSUME NEW i \in Len(initialState) + 1 .. Len(s) + 1
        PROVE  OwnedBy(owner, Append(s, u)[i])
    <2>1. CASE i = Len(s) + 1
      BY <1>2, <2>1
    <2>2. CASE i # Len(s) + 1
      <3>1. i \in Len(initialState) + 1 .. Len(s) /\ i \in 1..Len(s)
        BY <1>3, <2>2
      <3> QED
        BY <1>2, <1>4, <3>1
    <2> QED
      BY <2>1, <2>2
  <1>6. AddedBy(owner, initialState, Append(s, u))
    BY <1>2, <1>5 DEF AddedBy
  <1> QED
    BY <1>6 DEF s

LEMMA NextOwner ==
  ASSUME ControlTypeOK, StatesTypeOK, OwnerInv, [Next]_vars
  PROVE  OwnerInv'
  <1>0. /\ pc \in [Update -> Location]
        /\ engineCall \in [Update -> States \cup {NotCalled}]
        /\ ws \in ControlBookkeeping
    BY DEF ControlTypeOK, StatesTypeOK
  <1> USE DEF engine, runVars, mainVars, time, storage, updateVars
  <1>1. ASSUME NEW u \in Update,
               RefuseUnauthorized(u) \/ TakeLock(u)
        PROVE  OwnerInv'
    BY <1>0, <1>1, OwnerKept DEF RefuseUnauthorized, TakeLock, InFlight, Location
  <1>2. ASSUME NEW u \in Update, AnswerDuplicate(u) PROVE OwnerInv'
    <2>1. Authorized(u) /\ ws' = Claimed(u)
      BY <1>2 DEF AnswerDuplicate
    <2>2. owner # NoMetadata => owner' = owner
      BY <2>1, AuthorizedOwns
    <2>3. \A v \in Update : InFlight(v)' => InFlight(v)
      BY <1>0, <1>2 DEF AnswerDuplicate, InFlight, Location
    <2>4. UNCHANGED <<initialState, currentState, engineState, engineCall>>
      BY <1>2 DEF AnswerDuplicate
    <2> QED
      BY <2>2, <2>3, <2>4, OwnerKept
  <1>3. ASSUME NEW u \in Update, Accept(u) PROVE OwnerInv'
    <2>1. Authorized(u) /\ ws' = Counted(Claimed(u))
      BY <1>3 DEF Accept
    <2>2. owner' = Claimed(u).entityMetadata
      BY <2>1, ClaimedTyped DEF Counted, ControlBookkeeping
    <2>3. owner # NoMetadata => owner' = owner
      BY <2>1, <2>2, AuthorizedOwns
    <2>4. OwnedBy(owner', u)
      BY <2>1, <2>2, AuthorizedOwns DEF OwnedBy
    <2>5. \A v \in Update : InFlight(v)' => InFlight(v) \/ v = u
      BY <1>0, <1>3 DEF Accept, InFlight, Location
    <2>6. UNCHANGED <<initialState, currentState, engineState, engineCall>>
      BY <1>3 DEF Accept
    <2> QED
      BY <2>3, <2>4, <2>5, <2>6, OwnerKept
  <1>4. ASSUME NEW u \in Update, EngineBegin(u) PROVE OwnerInv'
    <2>1. /\ pc[u] = "activity"
          /\ engineCall' = [engineCall EXCEPT ![u] = engineState]
          /\ UNCHANGED <<pc, ws, initialState, currentState, engineState>>
      BY <1>4 DEF EngineBegin
    <2>2. OwnedBy(owner, u)
      BY <2>1 DEF OwnerInv, InFlight
    <2>3. owner' = owner
      BY <2>1
    <2>4. initialState' = initialState
      BY <2>1
    <2>5. \A v \in Update : engineCall'[v] = IF v = u THEN engineState
                                             ELSE engineCall[v]
      BY <1>0, <2>1
    <2>6. \A v \in Update : InFlight(v)' <=> InFlight(v)
      BY <2>1 DEF InFlight
    <2>7. /\ AddedBy(owner, initialState, engineState)
          /\ AddedBy(owner, initialState, currentState)
      BY DEF OwnerInv
    <2>8. \A v \in Update :
           InFlight(v)' \/ engineCall'[v] # NotCalled => OwnedBy(owner', v)
      BY <2>2, <2>3, <2>5, <2>6 DEF OwnerInv
    <2>9. \A v \in Update : engineCall'[v] # NotCalled =>
           AddedBy(owner', initialState', engineCall'[v])
      BY <2>3, <2>4, <2>5, <2>7 DEF OwnerInv
    <2>10. /\ AddedBy(owner', initialState', engineState')
           /\ AddedBy(owner', initialState', currentState')
      BY <2>1, <2>3, <2>4, <2>7
    <2> QED
      BY <2>8, <2>9, <2>10 DEF OwnerInv
  \* A call ends: its result replaces the engine's state, and maybe the workflow's.
  <1>5. ASSUME NEW u \in Update, engineCall[u] # NotCalled,
               engineCall' = [engineCall EXCEPT ![u] = NotCalled],
               engineState' \in {engineCall[u], Append(engineCall[u], u)},
               currentState' \in {currentState, engineState'},
               owner' = owner,
               initialState' = initialState,
               \A v \in Update : InFlight(v)' => InFlight(v)
        PROVE  OwnerInv'
    <2>1. OwnedBy(owner, u) /\ AddedBy(owner, initialState, engineCall[u])
      BY <1>5 DEF OwnerInv
    <2>2. AddedBy(owner, initialState, Append(engineCall[u], u))
      BY <1>5, <2>1, OwnedAppend
    <2>3. owner' = owner
      BY <1>5
    <2>4. initialState' = initialState
      BY <1>5
    <2>5. \A v \in Update : engineCall'[v] \in {engineCall[v], NotCalled}
      BY <1>0, <1>5
    <2>6. AddedBy(owner, initialState, engineState')
      BY <1>5, <2>1, <2>2
    <2>7. AddedBy(owner, initialState, currentState')
      BY <1>5, <2>6 DEF OwnerInv
    <2>8. \A v \in Update :
           InFlight(v)' \/ engineCall'[v] # NotCalled => OwnedBy(owner', v)
      BY <1>5, <2>3, <2>5 DEF OwnerInv
    <2>9. \A v \in Update : engineCall'[v] # NotCalled =>
           AddedBy(owner', initialState', engineCall'[v])
      BY <2>3, <2>4, <2>5 DEF OwnerInv
    <2>10. /\ AddedBy(owner', initialState', engineState')
           /\ AddedBy(owner', initialState', currentState')
      BY <2>3, <2>4, <2>6, <2>7
    <2> QED
      BY <2>8, <2>9, <2>10 DEF OwnerInv
  <1>6. ASSUME NEW u \in Update, Answer(u) PROVE OwnerInv'
    <2>1. owner' = owner
      BY <1>6, ReturnKind, ReturnedOwner
    <2>2. \A v \in Update : InFlight(v)' => InFlight(v)
      BY <1>0, <1>6, ReturnKind DEF Returned, InFlight, Location
    <2>3. CASE EngineReturns(u)
      BY <2>1, <2>2, <2>3, <1>5 DEF EngineReturns
    <2>4. CASE EngineRefuses(u)
      BY <2>1, <2>2, <2>4, <1>5 DEF EngineRefuses
    <2>5. CASE ActivityTimesOut(u)
      BY <2>1, <2>2, <2>5, OwnerKept DEF ActivityTimesOut
    <2> QED
      BY <1>6, <2>3, <2>4, <2>5 DEF Answer
  <1>7. ASSUME NEW u \in Update, LateCall(u) PROVE OwnerInv'
    <2>1. \A v \in Update : InFlight(v)' => InFlight(v)
      BY <1>7 DEF LateCall, InFlight
    <2>2. /\ engineCall[u] # NotCalled
          /\ engineCall' = [engineCall EXCEPT ![u] = NotCalled]
          /\ engineState' \in {engineCall[u], Append(engineCall[u], u)}
          /\ UNCHANGED <<currentState, ws, initialState>>
      BY <1>7 DEF LateCall
    <2> QED
      BY <2>1, <2>2, <1>5
  <1>8. CASE Break \/ Drained \/ Suggest \/ Tick
    BY <1>8, OwnerKept DEF Break, Drained, Suggest, Tick, InFlight
  <1>9. CASE ContinueAsNew
    <2>1. /\ initialState' = compressing /\ currentState' = compressing
          /\ engineState' = compressing
          /\ \A u \in Update : engineCall'[u] = NotCalled
      BY <1>9 DEF ContinueAsNew, NoCall
    <2>2. \A u \in Update : ~InFlight(u)'
      BY <1>0, <1>9 DEF ContinueAsNew, Abandoned, InFlight
    <2>3. \A i \in Len(compressing) + 1 .. Len(compressing) : FALSE
      <3>1. Len(compressing) \in Nat
        BY DEF StatesTypeOK, States
      <3> QED
        BY <3>1
    <2> QED
      BY <2>1, <2>2, <2>3 DEF OwnerInv, AddedBy
  <1>10. CASE CompressFails \/ Cancel
    <2>1. UNCHANGED <<ws, currentState, engineState, initialState>>
      BY <1>10 DEF CompressFails, Cancel
    <2>2. \/ UNCHANGED <<pc, engineCall>>
          \/ pc' = Abandoned /\ engineCall' = NoCall
      BY <1>10 DEF CompressFails, Cancel, Fail
    <2>3. \A u \in Update : InFlight(u)' => InFlight(u)
      BY <1>0, <2>2 DEF Abandoned, InFlight
    <2>4. \A u \in Update : engineCall'[u] \in {engineCall[u], NotCalled}
      BY <1>0, <2>2 DEF NoCall
    <2> QED
      BY <2>1, <2>3, <2>4, OwnerKept
  <1>11. CASE Replayed
    <2>1. /\ engineState' = initialState
          /\ \A u \in Update : engineCall'[u] = NotCalled
          /\ UNCHANGED <<ws, pc, currentState, initialState>>
      BY <1>11 DEF Replayed, NoCall
    <2>2. owner' = owner
      BY <2>1
    <2>3. initialState' = initialState
      BY <2>1
    <2>4. AddedBy(owner, initialState, initialState)
      <3>1. Len(initialState) \in Nat
        BY DEF StatesTypeOK, States
      <3> QED
        BY <3>1 DEF AddedBy
    <2>5. \A u \in Update : InFlight(u)' <=> InFlight(u)
      BY <2>1 DEF InFlight
    <2> QED
      BY <2>1, <2>2, <2>3, <2>4, <2>5 DEF OwnerInv
  <1>12. ASSUME NEW r \in storing, RecordStored(r) \/ RecordDropped(r)
         PROVE  OwnerInv'
    BY <1>12, OwnerKept DEF RecordStored, RecordDropped, InFlight
  <1>13. CASE UNCHANGED vars
    BY <1>13, OwnerKept DEF vars, InFlight
  <1> QED
    BY <1>1, <1>2, <1>3, <1>4, <1>6, <1>7, <1>8, <1>9, <1>10, <1>11, <1>12,
       <1>13, ReplayKinds DEF Next, Step

\* Every update in flight, and every update this run applied, is of the caller the
\* entity belongs to, also when an engine call outlives its activity or the engine
\* was set back by a replay.
THEOREM EntityCallersOwn == Spec => []CallersOwnEntity
  <1> DEFINE IInv == ControlTypeOK /\ StatesTypeOK /\ OwnerInv
  <1>1. Init => IInv
    BY InitControl, InitStates, InitOwner
  <1>2. IInv /\ [Next]_vars => IInv'
    BY NextControl, NextStates, NextOwner
  <1>3. IInv => CallersOwnEntity
    BY DEF OwnerInv, AddedBy, OwnedBy, CallersOwnEntity
  <1> QED
    BY <1>1, <1>2, <1>3, PTL DEF Spec
===============================================================================
