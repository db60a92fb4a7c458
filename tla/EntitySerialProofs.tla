-------------------------- MODULE EntitySerialProofs --------------------------
(***************************************************************************)
(* What an entity promises where the faults of the violation runs do not   *)
(* occur, for any number of updates, keys and runs: its engine keeps up    *)
(* with it, and to clients that wait for their answers it is the serial    *)
(* entity of SerialEntity.  Each theorem names the faults it excludes.     *)
(***************************************************************************)
EXTENDS EntityWorkflowProofs, SequenceTheorems

USE EntityWorkflowAssumption, WorkflowStateAssumption, IdempotencyAssumption

\* No call of the engine outlives its activity, and no engine is replaced.
SteadyEngine == Faults \cap {"timeout", "replay"} = {}

\* The server never suggests to continue as new.
Unsuggested == "suggest" \notin Faults

\* Clients wait for the answer to a key before they send it again.
PatientClients == "resend" \notin Faults

-----------------------------------------------------------------------------
(***************************************************************************)
(* The engine and the workflow.  Only the holder of the mutex is in the    *)
(* engine, so that nobody else's call goes stale when one returns.         *)
(***************************************************************************)
SyncInv ==
  /\ engineState = currentState
  /\ \A u \in Update :
       engineCall[u] # NotCalled =>
         engineCall[u] = currentState /\ pc[u] = "activity"

LEMMA InitSync == Init => SyncInv
  BY DEF Init, SyncInv

\* A step that leaves both copies and who is in the engine alone.
LEMMA SyncKept ==
  ASSUME SyncInv,
         UNCHANGED <<currentState, engineState>>,
         \A u \in Update :
           engineCall'[u] # NotCalled =>
             engineCall'[u] = engineCall[u] /\ pc'[u] = pc[u]
  PROVE  SyncInv'
  BY DEF SyncInv

LEMMA NextSync ==
  ASSUME SteadyEngine, ControlTypeOK, StatesTypeOK, LockDiscipline, SyncInv,
         [Next]_vars
  PROVE  SyncInv'
  <1>0. /\ pc \in [Update -> Location]
        /\ engineCall \in [Update -> States \cup {NotCalled}]
    BY DEF ControlTypeOK, StatesTypeOK
  <1> USE DEF engine, runVars, mainVars, time, storage, updateVars
  <1>1. ASSUME NEW u \in Update,
               RefuseUnauthorized(u) \/ AnswerDuplicate(u) \/ Accept(u)
                 \/ TakeLock(u)
        PROVE  SyncInv'
    <2>1. /\ UNCHANGED <<currentState, engineState, engineCall>>
          /\ pc[u] \in {"idle", "locking"}
          /\ \A v \in Update \ {u} : pc'[v] = pc[v]
      BY <1>0, <1>1 DEF RefuseUnauthorized, AnswerDuplicate, Accept, TakeLock,
                        Admitted
    <2>2. engineCall[u] = NotCalled
      BY <2>1 DEF SyncInv
    <2> QED
      BY <2>1, <2>2, SyncKept
  <1>2. ASSUME NEW u \in Update, EngineBegin(u) PROVE SyncInv'
    BY <1>0, <1>2 DEF EngineBegin, SyncInv
  \* The caller that returns is the only one there is.
  <1>3. ASSUME NEW u \in Update, EngineReturns(u) \/ EngineRefuses(u)
        PROVE  /\ engineCall[u] = currentState
               /\ \A v \in Update : engineCall'[v] = NotCalled
    <2>1. /\ pc[u] = "activity"
          /\ engineCall[u] # NotCalled
          /\ engineCall' = [engineCall EXCEPT ![u] = NotCalled]
      BY <1>3 DEF EngineReturns, EngineRefuses
    <2>2. \A v \in Update \ {u} : engineCall[v] = NotCalled
      BY <2>1 DEF SyncInv, LockDiscipline
    <2> QED
      BY <1>0, <2>1, <2>2 DEF SyncInv
  <1>4. ASSUME NEW u \in Update, EngineReturns(u) PROVE SyncInv'
    <2>1. engineState' = currentState'
      BY <1>4 DEF EngineReturns
    <2> QED
      BY <1>3, <1>4, <2>1 DEF SyncInv
  <1>5. ASSUME NEW u \in Update, EngineRefuses(u) PROVE SyncInv'
    <2>1. engineState' = engineCall[u] /\ currentState' = currentState
      BY <1>5 DEF EngineRefuses
    <2> QED
      BY <1>3, <1>5, <2>1 DEF SyncInv
  <1>6. ASSUME NEW u \in Update PROVE ~ActivityTimesOut(u) /\ ~LateCall(u)
    BY DEF ActivityTimesOut, LateCall, SteadyEngine, SyncInv
  <1>7. CASE Break \/ Drained \/ Suggest \/ Tick
    BY <1>7, SyncKept DEF Break, Drained, Suggest, Tick
  <1>8. CASE ContinueAsNew
    BY <1>8 DEF ContinueAsNew, NoCall, SyncInv
  <1>9. CASE CompressFails \/ Cancel
    <2>1. /\ UNCHANGED <<currentState, engineState>>
          /\ UNCHANGED <<pc, engineCall>> \/ engineCall' = NoCall
      BY <1>9 DEF CompressFails, Cancel, Fail
    <2> QED
      BY <2>1, SyncKept DEF NoCall
  <1>10. ~Replayed
    BY DEF Replayed, SteadyEngine
  <1>11. ASSUME NEW r \in storing, RecordStored(r) \/ RecordDropped(r)
         PROVE  SyncInv'
    BY <1>11, SyncKept DEF RecordStored, RecordDropped
  <1>12. CASE UNCHANGED vars
    BY <1>12, SyncKept DEF vars
  <1> QED
    BY <1>1, <1>2, <1>4, <1>5, <1>6, <1>7, <1>8, <1>9, <1>10, <1>11, <1>12, ReplayKinds
    DEF Next, Step, Answer

\* What the theorems below have in common.
BaseInv == ControlTypeOK /\ StatesTypeOK /\ LockDiscipline /\ SyncInv

LEMMA InitBase == Init => BaseInv
  BY InitControl, InitStates, InitLock, InitSync DEF BaseInv

LEMMA NextBase ==
  ASSUME SteadyEngine, BaseInv, [Next]_vars
  PROVE  BaseInv'
  BY NextControl, NextStates, NextLock, NextSync DEF BaseInv

\* Without timeouts and replays the engine and the workflow agree on the state,
\* across every refused event and every continuation.
THEOREM EntityEngineInSync ==
  ASSUME SteadyEngine
  PROVE  Spec => []EngineInSync
  <1>1. BaseInv /\ [Next]_vars => BaseInv'
    BY NextBase
  <1>2. BaseInv => EngineInSync
    BY DEF BaseInv, SyncInv, EngineInSync
  <1> QED
    BY <1>1, <1>2, InitBase, PTL DEF Spec
-----------------------------------------------------------------------------
(***************************************************************************)
(* The previous state of a record.  What an update in flight serialized    *)
(* is, whatever the others do meanwhile, the beginning of the state.       *)
(***************************************************************************)
Begins(p, s) == \E n \in 0..Len(s) : p = SubSeq(s, 1, n)

\* A beginning of a state stays one when an update is appended, and leaves that
\* update out.
LEMMA BeginsAppend ==
  ASSUME NEW s \in States, NEW u \in Update, NEW p, Begins(p, s)
  PROVE  /\ Begins(p, Append(s, u))
         /\ \E n \in 0..Len(Append(s, u)) - 1 :
              p = SubSeq(Append(s, u), 1, n)
  <1> DEFINE t == Append(s, u)
  <1>1. /\ s \in Seq(Update) /\ t \in Seq(Update)
        /\ Len(s) \in Nat
        /\ Len(t) = Len(s) + 1
        /\ \A i \in 1..Len(s) : t[i] = s[i]
    BY AppendProperties DEF States
  <1>2. PICK n \in 0..Len(s) : p = SubSeq(s, 1, n)
    BY DEF Begins
  <1> HIDE DEF t
  <1>3. n \in Nat /\ n <= Len(s)
    BY <1>1, <1>2
  <1>4. \A i \in 1..n : s[i] \in Update /\ t[i] \in Update /\ t[i] = s[i]
    BY <1>1, <1>3, ElementOfSeq
  <1>5. /\ SubSeq(s, 1, n) \in Seq(Update)
        /\ Len(SubSeq(s, 1, n)) = n
        /\ \A i \in 1..n : SubSeq(s, 1, n)[i] = s[i]
    BY <1>3, <1>4, SubSeqProperties
  <1>6. /\ SubSeq(t, 1, n) \in Seq(Update)
        /\ Len(SubSeq(t, 1, n)) = n
        /\ \A i \in 1..n : SubSeq(t, 1, n)[i] = t[i]
    BY <1>3, <1>4, SubSeqProperties
  <1>7. SubSeq(s, 1, n) = SubSeq(t, 1, n)
    BY <1>4, <1>5, <1>6, SeqEqual
  <1>8. n \in 0..Len(t) /\ n \in 0..Len(t) - 1
    BY <1>1, <1>3
  <1>9. /\ \E k \in 0..Len(t) : p = SubSeq(t, 1, k)
        /\ \E k \in 0..Len(t) - 1 : p = SubSeq(t, 1, k)
    BY <1>2, <1>7, <1>8
  <1> QED
    BY <1>9 DEF Begins, t

LEMMA BeginsItself ==
  ASSUME NEW s \in States
  PROVE  Begins(s, s)
  <1>1. s = SubSeq(s, 1, Len(s)) /\ Len(s) \in 0..Len(s)
    BY SubSeqFull DEF States
  <1> QED
    BY <1>1 DEF Begins

PreviousInv ==
  /\ \A u \in Update : InFlight(u) => Begins(previous[u], currentState)
  /\ PreviousIsEarlier

LEMMA InitPrevious == Init => PreviousInv
  BY DEF Init, PreviousInv, PreviousIsEarlier, InFlight

\* A step that lets nobody in, changes no state and records nothing new.
LEMMA PreviousKept ==
  ASSUME PreviousInv,
         \A u \in Update : InFlight(u)' => InFlight(u),
         UNCHANGED <<previous, currentState>>,
         (storing \cup records)' \subseteq storing \cup records
  PROVE  PreviousInv'
  BY DEF PreviousInv, PreviousIsEarlier

LEMMA NextPrevious ==
  ASSUME BaseInv, PreviousInv, SteadyEngine, [Next]_vars
  PROVE  PreviousInv'
  <1>0. /\ pc \in [Update -> Location]
        /\ previous \in [Update -> States]
        /\ currentState \in States
    BY DEF BaseInv, ControlTypeOK, StatesTypeOK
  <1> USE DEF engine, runVars, mainVars, time, storage, updateVars
  <1>1. ASSUME NEW u \in Update,
               RefuseUnauthorized(u) \/ AnswerDuplicate(u) \/ TakeLock(u)
                 \/ EngineBegin(u) \/ EngineRefuses(u) \/ ActivityTimesOut(u)
                 \/ LateCall(u)
        PROVE  PreviousInv'
    <2>1. UNCHANGED <<previous, currentState, storing, records>>
      BY <1>1 DEF RefuseUnauthorized, AnswerDuplicate, TakeLock, EngineBegin,
                  EngineRefuses, ActivityTimesOut, LateCall
    <2>2. \A v \in Update : InFlight(v)' => InFlight(v)
      BY <1>0, <1>1 DEF RefuseUnauthorized, AnswerDuplicate, TakeLock,
                        EngineBegin, EngineRefuses, ActivityTimesOut, LateCall,
                        Return, InFlight
    <2> QED
      BY <2>1, <2>2, PreviousKept
  <1>2. ASSUME NEW u \in Update, Accept(u) PROVE PreviousInv'
    <2>1. /\ previous' = [previous EXCEPT ![u] = currentState]
          /\ UNCHANGED <<currentState, storing, records>>
      BY <1>2 DEF Accept
    <2>2. \A v \in Update : InFlight(v)' => InFlight(v) \/ v = u
      BY <1>0, <1>2 DEF Accept, InFlight
    <2>3. Begins(previous'[u], currentState)
      BY <1>0, <2>1, BeginsItself
    <2>4. \A v \in Update : InFlight(v)' => Begins(previous'[v], currentState')
      BY <1>0, <2>1, <2>2, <2>3 DEF PreviousInv
    <2>5. PreviousIsEarlier'
      BY <2>1 DEF PreviousInv, PreviousIsEarlier
    <2> QED
      BY <2>4, <2>5 DEF PreviousInv
  <1>3. ASSUME NEW u \in Update, EngineReturns(u) PROVE PreviousInv'
    <2>1. /\ engineCall[u] = currentState
          /\ InFlight(u)
      BY <1>3 DEF EngineReturns, BaseInv, SyncInv, InFlight
    <2>2. /\ currentState' = Append(currentState, u)
          /\ storing' \subseteq storing \cup {Record(u, currentState')}
          /\ UNCHANGED <<previous, records>>
      BY <1>3, <2>1 DEF EngineReturns
    <2>3. \A v \in Update : InFlight(v)' => InFlight(v)
      BY <1>0, <1>3 DEF EngineReturns, Return, InFlight
    <2>4. \A v \in Update : InFlight(v)' => Begins(previous'[v], currentState')
      BY <1>0, <2>2, <2>3, BeginsAppend DEF PreviousInv
    <2>5. \E n \in 0..Len(currentState') - 1 :
            previous[u] = SubSeq(currentState', 1, n)
      BY <1>0, <2>1, <2>2, BeginsAppend DEF PreviousInv
    <2> DEFINE new == Record(u, currentState')
    <2>6. /\ new.currentState = currentState'
          /\ new.previousState = previous[u]
      BY DEF Record
    <2> HIDE DEF new
    <2>7. ASSUME NEW r \in (storing \cup records)'
          PROVE  \E n \in 0..Len(r.currentState) - 1 :
                   r.previousState = SubSeq(r.currentState, 1, n)
      <3>1. r \in storing \cup records \/ r = new
        BY <2>2 DEF new
      <3> QED
        BY <3>1, <2>5, <2>6 DEF PreviousInv, PreviousIsEarlier
    <2> QED
      BY <2>4, <2>7 DEF PreviousInv, PreviousIsEarlier
  <1>4. CASE Break \/ Drained \/ Suggest \/ Tick
    BY <1>4, PreviousKept DEF Break, Drained, Suggest, Tick, InFlight
  <1>5. CASE ContinueAsNew
    <2>1. \A u \in Update : ~InFlight(u)'
      BY <1>0, <1>5 DEF ContinueAsNew, Abandoned, InFlight
    <2>2. UNCHANGED <<storing, records>>
      BY <1>5 DEF ContinueAsNew
    <2> QED
      BY <2>1, <2>2 DEF PreviousInv, PreviousIsEarlier
  <1>6. CASE CompressFails \/ Cancel
    <2>1. UNCHANGED <<previous, currentState, storing, records>>
      BY <1>6 DEF CompressFails, Cancel
    <2>2. pc' = pc \/ pc' = Abandoned
      BY <1>6 DEF CompressFails, Cancel, Fail
    <2>3. \A u \in Update : InFlight(u)' => InFlight(u)
      BY <1>0, <2>2 DEF Abandoned, InFlight
    <2> QED
      BY <2>1, <2>3, PreviousKept
  <1>7. ASSUME NEW r \in storing, RecordStored(r) \/ RecordDropped(r)
        PROVE  PreviousInv'
    BY <1>7, PreviousKept DEF RecordStored, RecordDropped, Inserted, InFlight
  <1>8. CASE UNCHANGED vars
    BY <1>8, PreviousKept DEF vars, InFlight
  <1>9. ~Replayed
    BY DEF Replayed, SteadyEngine
  <1> QED
    BY <1>1, <1>2, <1>3, <1>4, <1>5, <1>6, <1>7, <1>8, <1>9, ReplayKinds DEF Next, Step, Answer

\* Without timeouts and replays the previous state of every record is one the
\* entity had before the record's update.
THEOREM EntityPreviousIsEarlier ==
  ASSUME SteadyEngine
  PROVE  Spec => []PreviousIsEarlier
  <1>1. BaseInv /\ PreviousInv /\ [Next]_vars => (BaseInv /\ PreviousInv)'
    BY NextBase, NextPrevious
  <1>2. PreviousInv => PreviousIsEarlier
    BY DEF PreviousInv
  <1> QED
    BY <1>1, <1>2, InitBase, InitPrevious, PTL DEF Spec

-----------------------------------------------------------------------------
(***************************************************************************)
(* From the end of the loop on.  Where the threshold is the only reason to *)
(* leave the loop, the validator lets nobody in after it; when the drain   *)
(* is over nobody is in flight, and the state that is compressed is the    *)
(* state the run ends with.                                                *)
(***************************************************************************)
CompressInv ==
  /\ ~suggested
  /\ main \in {"drain", "compress"} => ws.requestCount >= ws.requestsBeforeCAN
  /\ main = "compress" =>
       compressing = currentState /\ \A u \in Update : ~InFlight(u)

LEMMA InitCompress == Init => CompressInv
  BY DEF Init, CompressInv

LEMMA ThresholdLetsNobodyIn ==
  ASSUME ControlTypeOK, CompressInv, NEW u \in Update, Admitted(u)
  PROVE  main \notin {"drain", "compress"}
  BY CountsTyped DEF Admitted, CompressInv

LEMMA NextCompress ==
  ASSUME Unsuggested, ControlTypeOK, PendingInv, CompressInv, [Next]_vars
  PROVE  CompressInv'
  <1>0. pc \in [Update -> Location]
    BY DEF ControlTypeOK
  <1> USE DEF engine, runVars, mainVars, time, storage, updateVars
  <1>1. ASSUME NEW u \in Update,
               RefuseUnauthorized(u) \/ AnswerDuplicate(u) \/ Accept(u)
        PROVE  CompressInv'
    <2>1. Admitted(u) /\ UNCHANGED <<main, suggested>>
      BY <1>1 DEF RefuseUnauthorized, AnswerDuplicate, Accept
    <2> QED
      BY <2>1, ThresholdLetsNobodyIn DEF CompressInv
  <1>2. ASSUME NEW u \in Update, TakeLock(u) \/ Answer(u) PROVE CompressInv'
    <2>1. InFlight(u)
      BY <1>2 DEF TakeLock, Answer, EngineReturns, EngineRefuses,
                  ActivityTimesOut, InFlight
    <2>2. UNCHANGED <<main, suggested>>
      BY <1>2 DEF TakeLock, Answer, EngineReturns, EngineRefuses,
                  ActivityTimesOut
    <2>3. /\ ws'.requestCount = ws.requestCount
          /\ ws'.requestsBeforeCAN = ws.requestsBeforeCAN
      <3>1. CASE TakeLock(u)
        BY <3>1 DEF TakeLock
      <3>2. CASE Answer(u)
        BY <3>2, ReturnKind, ReturnedCounts
      <3> QED
        BY <1>2, <3>1, <3>2
    <2> QED
      BY <2>1, <2>2, <2>3 DEF CompressInv
  <1>3. ASSUME NEW u \in Update, EngineBegin(u) \/ LateCall(u)
        PROVE  CompressInv'
    BY <1>3 DEF EngineBegin, LateCall, CompressInv, InFlight
  <1>4. CASE Break
    BY <1>4, CountsTyped DEF Break, ShouldContinueAsNew, CompressInv
  <1>5. CASE Drained
    <2>1. Cardinality(Pending) = 0
      BY <1>5 DEF Drained, PendingInv, PendingAccounted, Pending
    <2>2. Pending = {}
      BY <2>1, PendingFinite, FS_EmptySet
    <2>3. \A u \in Update : ~InFlight(u)'
      BY <1>5, <2>2 DEF Drained, Pending, InFlight
    <2>4. /\ compressing' = currentState'
          /\ main = "drain"
          /\ UNCHANGED <<ws, suggested>>
      BY <1>5 DEF Drained
    <2> QED
      BY <2>3, <2>4 DEF CompressInv
  <1>6. CASE ContinueAsNew
    BY <1>6 DEF ContinueAsNew, CompressInv
  <1>7. CASE CompressFails \/ Cancel
    BY <1>7 DEF CompressFails, Cancel, Fail, CompressInv
  <1>8. ~Suggest
    BY DEF Suggest, Unsuggested
  <1>9. CASE Replayed \/ Tick
    BY <1>9 DEF Replayed, Tick, CompressInv, InFlight
  <1>10. ASSUME NEW r \in storing, RecordStored(r) \/ RecordDropped(r)
         PROVE  CompressInv'
    BY <1>10 DEF RecordStored, RecordDropped, CompressInv, InFlight
  <1>11. CASE UNCHANGED vars
    BY <1>11 DEF vars, CompressInv, InFlight
  <1> QED
    BY <1>1, <1>2, <1>3, <1>4, <1>5, <1>6, <1>7, <1>8, <1>9, <1>10, <1>11, ReplayKinds
    DEF Next, Step

SerialBase == BaseInv /\ PendingInv /\ CompressInv

LEMMA InitSerialBase == Init => SerialBase
  BY InitBase, InitPending, InitCompress DEF SerialBase

LEMMA NextSerialBase ==
  ASSUME SteadyEngine, Unsuggested, SerialBase, [Next]_vars
  PROVE  SerialBase'
  BY NextBase, NextPending, NextCompress DEF SerialBase, BaseInv

\* The state of the entity changes in one place only.
LEMMA StateGrows ==
  ASSUME SerialBase, [Next]_vars
  PROVE  \/ currentState' = currentState
         \/ \E u \in Update : /\ EngineReturns(u)
                              /\ currentState' = Append(currentState, u)
  <1> USE DEF engine, runVars, mainVars, time, storage, updateVars
  <1>1. ASSUME NEW u \in Update, Step(u), ~EngineReturns(u)
        PROVE  currentState' = currentState
    BY <1>1 DEF Step, Answer, RefuseUnauthorized, AnswerDuplicate, Accept,
                TakeLock, EngineBegin, EngineRefuses, ActivityTimesOut, LateCall
  <1>2. ASSUME NEW u \in Update, EngineReturns(u)
        PROVE  currentState' = Append(currentState, u)
    BY <1>2 DEF EngineReturns, SerialBase, BaseInv, SyncInv
  <1>3. CASE ContinueAsNew
    BY <1>3 DEF ContinueAsNew, SerialBase, CompressInv
  <1>4. CASE Break \/ Drained \/ CompressFails \/ Suggest \/ Cancel \/ Replayed \/ Tick
    BY <1>4 DEF Break, Drained, CompressFails, Suggest, Cancel, Replayed, Tick
  <1>5. ASSUME NEW r \in storing, RecordStored(r) \/ RecordDropped(r)
        PROVE  currentState' = currentState
    BY <1>5 DEF RecordStored, RecordDropped
  <1>6. CASE UNCHANGED vars
    BY <1>6 DEF vars
  <1> QED
    BY <1>1, <1>2, <1>3, <1>4, <1>5, <1>6, ReplayKinds DEF Next

-----------------------------------------------------------------------------
(***************************************************************************)
(* The keys.  A client that waits for its answer has one update in flight  *)
(* under a key, and none under a key that was answered before: as long as  *)
(* a run lets updates in, the keys it acknowledged are in its map.         *)
(***************************************************************************)
SameKey(u, v) == key[u] = key[v] /\ key[u] # NoKey

KeyInv ==
  /\ \A u, v \in Update : InFlight(u) /\ u # v /\ SameKey(u, v) =>
       ~InFlight(v) /\ pc[v] # "ok"
  /\ ws.requestsBeforeCAN # 0 =>
       \A v \in Update : pc[v] = "ok" /\ key[v] # NoKey =>
         ws.processedRequests[key[v]] # 0

LEMMA InitKey == Init => KeyInv
  BY DEF Init, KeyInv, InFlight

\* A step that lets nobody in, answers "ok" to nobody and forgets no key.
LEMMA KeyKept ==
  ASSUME KeyInv,
         \A u \in Update : InFlight(u)' => InFlight(u),
         \A u \in Update : pc'[u] = "ok" => pc[u] = "ok",
         \/ ws'.requestsBeforeCAN = 0
         \/ /\ ws'.requestsBeforeCAN = ws.requestsBeforeCAN
            /\ ws'.processedRequests = ws.processedRequests
  PROVE  KeyInv'
  BY DEF KeyInv, SameKey

LEMMA NextKey ==
  ASSUME PatientClients, ControlTypeOK, KeyInv, [Next]_vars
  PROVE  KeyInv'
  <1>0. pc \in [Update -> Location] /\ ws \in ControlBookkeeping
    BY DEF ControlTypeOK
  <1> USE DEF engine, runVars, mainVars, time, storage, updateVars
  <1>1. ASSUME NEW u \in Update,
               RefuseUnauthorized(u) \/ TakeLock(u) \/ EngineBegin(u) \/ LateCall(u)
        PROVE  KeyInv'
    <2>1. ws' = ws
      BY <1>1 DEF RefuseUnauthorized, TakeLock, EngineBegin, LateCall
    <2>2. /\ \A v \in Update : InFlight(v)' => InFlight(v)
          /\ \A v \in Update : pc'[v] = "ok" => pc[v] = "ok"
      BY <1>0, <1>1 DEF RefuseUnauthorized, TakeLock, EngineBegin, LateCall,
                        Admitted, InFlight
    <2> QED
      BY <2>1, <2>2, KeyKept
  \* The claim of the entity leaves the keys alone.
  <1>a. ASSUME NEW u \in Update, Authorized(u)
        PROVE  /\ Claimed(u).requestsBeforeCAN = ws.requestsBeforeCAN
               /\ Claimed(u).processedRequests = ws.processedRequests
    <2>1. PICK m : Claimed(u) = [ws EXCEPT !.entityMetadata = m]
      BY <1>a, ClaimedTyped
    <2> QED
      BY <1>0, <2>1 DEF ControlBookkeeping
  <1>2. ASSUME NEW u \in Update, AnswerDuplicate(u) PROVE KeyInv'
    <2>1. /\ ws'.requestsBeforeCAN = ws.requestsBeforeCAN
          /\ ws'.processedRequests = ws.processedRequests
      BY <1>2, <1>a DEF AnswerDuplicate
    <2>2. /\ \A v \in Update : InFlight(v)' => InFlight(v)
          /\ \A v \in Update : pc'[v] = "ok" => pc[v] = "ok"
      BY <1>0, <1>2 DEF AnswerDuplicate, InFlight
    <2> QED
      BY <2>1, <2>2, KeyKept
  <1>3. ASSUME NEW u \in Update, Accept(u) PROVE KeyInv'
    <2>1. /\ Claimed(u) \in ControlBookkeeping
          /\ ws' = Counted(Claimed(u))
      BY <1>3, ClaimedTyped DEF Accept
    <2>2. /\ ws'.requestsBeforeCAN = ws.requestsBeforeCAN
          /\ ws'.processedRequests = ws.processedRequests
      BY <1>3, <1>a, <2>1 DEF Accept, Counted, ControlBookkeeping
    <2>3. ws.requestsBeforeCAN # 0
      BY <1>3, CountsTyped DEF Accept, Admitted
    <2>4. key[u] # NoKey => ws.processedRequests[key[u]] = 0
      BY <1>3 DEF Accept, Duplicate, IsRequestProcessed
    <2>5. \A v \in Update : SameKey(u, v) => ~InFlight(v) /\ pc[v] # "ok"
      BY <1>3, <2>3, <2>4 DEF Accept, Admitted, Sendable, PatientClients,
                              KeyInv, SameKey
    <2>6. /\ pc[u] = "idle"
          /\ \A v \in Update \ {u} : pc'[v] = pc[v]
          /\ pc'[u] \in {"activity", "locking"}
      BY <1>0, <1>3 DEF Accept, Admitted
    <2>7. ASSUME NEW v \in Update, NEW w \in Update,
                 InFlight(v)', v # w, SameKey(v, w)
          PROVE  ~InFlight(w)' /\ pc'[w] # "ok"
      <3>1. CASE v = u
        BY <2>5, <2>6, <2>7, <3>1 DEF InFlight
      <3>2. CASE w = u
        <4>1. InFlight(v) /\ SameKey(u, v)
          BY <2>6, <2>7, <3>2 DEF InFlight, SameKey
        <4> QED
          BY <2>5, <4>1
      <3>3. CASE v # u /\ w # u
        BY <2>6, <2>7, <3>3 DEF InFlight, KeyInv
      <3> QED
        BY <3>1, <3>2, <3>3
    <2>8. \A v \in Update : pc'[v] = "ok" => pc[v] = "ok"
      BY <2>6
    <2> QED
      BY <2>2, <2>7, <2>8 DEF KeyInv
  <1>4. ASSUME NEW u \in Update, EngineReturns(u) PROVE KeyInv'
    <2> DEFINE w == MarkRequestProcessed(ws, key[u], now)
    <2>1. /\ pc[u] = "activity" /\ pc'[u] = "ok"
          /\ \A v \in Update \ {u} : pc'[v] = pc[v]
          /\ ws' = DecrementPendingUpdates(w)
      BY <1>0, <1>4 DEF EngineReturns, Return
    <2>2. now # 0
      BY DEF ControlTypeOK
    <2>3. w \in ControlBookkeeping
      BY <1>0, MarkTyped DEF ControlTypeOK
    <2>4. /\ ws'.requestsBeforeCAN = w.requestsBeforeCAN
          /\ ws'.processedRequests = w.processedRequests
      BY <2>1, <2>3 DEF DecrementPendingUpdates, ControlBookkeeping
    <2>5. w.requestsBeforeCAN = ws.requestsBeforeCAN
      BY <1>0 DEF MarkRequestProcessed, ControlBookkeeping
    <2>6. \A k \in Key : w.processedRequests[k] =
                           IF k = key[u] THEN now ELSE ws.processedRequests[k]
      <3>1. ws.processedRequests \in [Key -> 0..MaxTime]
        BY <1>0, FieldsTyped
      <3>2. CASE key[u] = NoKey
        BY <3>2 DEF MarkRequestProcessed
      <3>3. CASE key[u] # NoKey
        <4>1. w.processedRequests = [ws.processedRequests EXCEPT ![key[u]] = now]
          BY <1>0, <3>3 DEF MarkRequestProcessed, ControlBookkeeping
        <4> QED
          BY <3>1, <4>1
      <3> QED
        BY <3>2, <3>3
    <2> HIDE DEF w
    <2>7. ASSUME NEW v \in Update, NEW x \in Update,
                 InFlight(v)', v # x, SameKey(v, x)
          PROVE  ~InFlight(x)' /\ pc'[x] # "ok"
      <3>1. InFlight(v) /\ v # u
        BY <2>1, <2>7 DEF InFlight
      <3>2. x # u
        BY <2>1, <2>7, <3>1 DEF KeyInv, InFlight
      <3> QED
        BY <2>1, <2>7, <3>1, <3>2 DEF KeyInv, InFlight
    <2>8. ASSUME ws'.requestsBeforeCAN # 0, NEW v \in Update,
                 pc'[v] = "ok", key[v] # NoKey
          PROVE  ws'.processedRequests[key[v]] # 0
      <3>1. key[v] \in Key
        BY <2>8
      <3>2. CASE key[v] = key[u]
        BY <2>2, <2>4, <2>6, <3>1, <3>2
      <3>3. CASE key[v] # key[u]
        <4>1. pc[v] = "ok"
          BY <2>1, <2>8, <3>3
        <4>2. ws.processedRequests[key[v]] # 0
          BY <2>4, <2>5, <2>8, <4>1 DEF KeyInv
        <4> QED
          BY <2>4, <2>6, <3>1, <3>3, <4>2
      <3> QED
        BY <3>2, <3>3
    <2> QED
      BY <2>7, <2>8 DEF KeyInv
  <1>5. ASSUME NEW u \in Update, EngineRefuses(u) \/ ActivityTimesOut(u)
        PROVE  KeyInv'
    <2>1. Return(u, "failed", ws)
      BY <1>5 DEF EngineRefuses, ActivityTimesOut
    <2>2. /\ ws'.requestsBeforeCAN = ws.requestsBeforeCAN
          /\ ws'.processedRequests = ws.processedRequests
      BY <1>0, <2>1 DEF Return, DecrementPendingUpdates, ControlBookkeeping
    <2>3. /\ \A v \in Update : InFlight(v)' => InFlight(v)
          /\ \A v \in Update : pc'[v] = "ok" => pc[v] = "ok"
      BY <1>0, <2>1 DEF Return, InFlight
    <2> QED
      BY <2>2, <2>3, KeyKept
  <1>6. CASE Break \/ Drained \/ Suggest \/ Replayed \/ Tick
    BY <1>6, KeyKept DEF Break, Drained, Suggest, Replayed, Tick, InFlight
  <1>b. ASSUME pc' = Abandoned \/ pc' = pc
        PROVE  /\ \A u \in Update : InFlight(u)' => InFlight(u)
               /\ \A u \in Update : pc'[u] = "ok" => pc[u] = "ok"
    BY <1>0, <1>b DEF Abandoned, InFlight
  <1>7. CASE ContinueAsNew
    <2>1. pc' = Abandoned /\ ws'.requestsBeforeCAN = 0
      BY <1>7 DEF ContinueAsNew, Transported
    <2> QED
      BY <1>b, <2>1, KeyKept
  <1>8. CASE CompressFails \/ Cancel
    <2>1. ws' = ws /\ (pc' = Abandoned \/ pc' = pc)
      BY <1>8 DEF CompressFails, Cancel, Fail
    <2> QED
      BY <1>b, <2>1, KeyKept
  <1>9. ASSUME NEW r \in storing, RecordStored(r) \/ RecordDropped(r)
        PROVE  KeyInv'
    BY <1>9, KeyKept DEF RecordStored, RecordDropped, InFlight
  <1>10. CASE UNCHANGED vars
    BY <1>10, KeyKept DEF vars, InFlight
  <1> QED
    BY <1>1, <1>2, <1>3, <1>4, <1>5, <1>6, <1>7, <1>8, <1>9, <1>10, ReplayKinds
    DEF Next, Step, Answer

-----------------------------------------------------------------------------
(***************************************************************************)
(* The serial entity.  A step that answers "ok" applies the update to the  *)
(* end of the state; every other step is invisible.                        *)
(***************************************************************************)
acked == {u \in Update : pc[u] = "ok"}

\* Who is answered "ok", and with what effect.
LEMMA AcknowledgedGrows ==
  ASSUME SerialBase, [Next]_vars
  PROVE  \/ /\ currentState' = currentState
            /\ acked' = acked
         \/ \E u \in Update : /\ pc[u] = "activity"
                              /\ currentState' = Append(currentState, u)
                              /\ acked' = acked \cup {u}
  <1>0. pc \in [Update -> Location]
    BY DEF SerialBase, BaseInv, ControlTypeOK
  <1> USE DEF acked, engine, runVars, mainVars, time, storage, updateVars
  <1>1. ASSUME NEW u \in Update, EngineReturns(u)
        PROVE  /\ pc[u] = "activity"
               /\ currentState' = Append(currentState, u)
               /\ acked' = acked \cup {u}
    <2>1. /\ pc[u] = "activity"
          /\ pc' = [pc EXCEPT ![u] = "ok"]
          /\ currentState' = Append(engineCall[u], u)
          /\ engineCall[u] # NotCalled
      BY <1>1 DEF EngineReturns, Return
    <2>2. engineCall[u] = currentState
      BY <2>1 DEF SerialBase, BaseInv, SyncInv
    <2>3. acked' = acked \cup {u}
      BY <1>0, <2>1
    <2> QED
      BY <2>1, <2>2, <2>3
  <1>2. ASSUME \A u \in Update : ~EngineReturns(u)
        PROVE  currentState' = currentState
    BY <1>2, StateGrows
  <1>3. ASSUME NEW u \in Update, Step(u), ~EngineReturns(u)
        PROVE  \A v \in Update : pc'[v] = "ok" <=> pc[v] = "ok"
    BY <1>0, <1>3 DEF Step, Answer, RefuseUnauthorized, AnswerDuplicate, Accept,
         Admitted, TakeLock, EngineBegin, EngineRefuses, ActivityTimesOut,
         LateCall, Return
  <1>4. CASE \/ Break \/ Drained \/ Suggest \/ Replayed \/ Tick
             \/ ContinueAsNew \/ CompressFails \/ Cancel
    <2>1. pc' = pc \/ pc' = Abandoned
      BY <1>4 DEF Break, Drained, Suggest, Replayed, Tick, ContinueAsNew,
                  CompressFails, Cancel, Fail
    <2>2. \A v \in Update : pc'[v] = "ok" <=> pc[v] = "ok"
      BY <1>0, <2>1 DEF Abandoned, InFlight
    <2>3. currentState' = currentState
      BY <1>4 DEF Break, Drained, Suggest, Replayed, Tick, ContinueAsNew,
                  CompressFails, Cancel, SerialBase, CompressInv
    <2> QED
      BY <2>2, <2>3
  <1>5. ASSUME NEW r \in storing, RecordStored(r) \/ RecordDropped(r)
        PROVE  UNCHANGED <<pc, currentState>>
    BY <1>5 DEF RecordStored, RecordDropped
  <1>6. CASE UNCHANGED vars
    BY <1>6 DEF vars
  <1>7. ASSUME NEW u \in Update, Step(u)
        PROVE  \/ currentState' = currentState /\ acked' = acked
               \/ EngineReturns(u)
    BY <1>3, <1>7 DEF Step, Answer, RefuseUnauthorized, AnswerDuplicate, Accept,
         TakeLock, EngineBegin, EngineRefuses, ActivityTimesOut, LateCall
  <1> QED
    BY <1>1, <1>4, <1>5, <1>6, <1>7, ReplayKinds DEF Next

SerialInv == SerialBase /\ KeyInv

LEMMA InitSerial == Init => SerialInv
  BY InitSerialBase, InitKey DEF SerialInv

LEMMA NextSerial ==
  ASSUME SteadyEngine, Unsuggested, PatientClients, SerialInv, [Next]_vars
  PROVE  SerialInv'
  BY NextSerialBase, NextKey DEF SerialInv, SerialBase, BaseInv

\* To clients that wait for their answers, and without timeouts, replays and
\* suggestions, the entity with its mutex, its drain, its compression and its
\* continuations is one that applies each update at most once and loses none.
THEOREM EntityImplementsSerial ==
  ASSUME SteadyEngine, Unsuggested, PatientClients
  PROVE  Spec => ImplementsSerialEntity
  <1>1. Init => Serial!Init
    BY DEF Init, Serial!Init
  <1>2. SerialInv /\ [Next]_vars => [Serial!Next]_(Serial!vars)
    <2> SUFFICES ASSUME SerialInv, [Next]_vars
                 PROVE  [Serial!Next]_(Serial!vars)
      OBVIOUS
    <2>1. CASE currentState' = currentState /\ acked' = acked
      BY <2>1 DEF Serial!vars, acked
    <2>2. ASSUME NEW u \in Update, pc[u] = "activity",
                 currentState' = Append(currentState, u),
                 acked' = acked \cup {u}
          PROVE  Serial!Apply(u)
      <3>1. \A v \in acked : key[v] = key[u] => key[u] = NoKey /\ v # u
        BY <2>2 DEF acked, SerialInv, KeyInv, SameKey, InFlight
      <3> QED
        BY <2>2, <3>1 DEF Serial!Apply, acked
    <2> QED
      BY <2>1, <2>2, AcknowledgedGrows DEF SerialInv, Serial!Next
  <1>3. SerialInv /\ [Next]_vars => SerialInv'
    BY NextSerial
  <1> QED
    BY <1>1, <1>2, <1>3, InitSerial, PTL DEF Spec, ImplementsSerialEntity, Serial!Spec

-----------------------------------------------------------------------------
(***************************************************************************)
(* What is taken for a duplicate.                                          *)
(***************************************************************************)
LEMMA RangeAppend ==
  ASSUME NEW s \in States, NEW u \in Update
  PROVE  Range(Append(s, u)) = Range(s) \cup {u}
  <1> DEFINE t == Append(s, u)
  <1>1. /\ Len(s) \in Nat
        /\ DOMAIN s = 1..Len(s)
        /\ DOMAIN t = 1..Len(s) + 1
        /\ \A i \in 1..Len(s) : t[i] = s[i]
        /\ t[Len(s) + 1] = u
    BY AppendProperties, LenProperties DEF States
  <1> HIDE DEF t
  <1>2. 1..Len(s) + 1 = (1..Len(s)) \cup {Len(s) + 1}
    BY <1>1
  <1>3. Range(t) = Range(s) \cup {u}
    BY <1>1, <1>2 DEF Range
  <1> QED
    BY <1>3 DEF t

\* A key in the map is the key of an update in the state; the cutoff of a run is
\* the time the entity was started, or the zero time.
DuplicateInv ==
  /\ ws.idempotencyCutoff <= 1
  /\ \A k \in Key : ws.processedRequests[k] # 0 =>
       \E v \in Range(currentState) : key[v] = k
  /\ DuplicatesWereApplied

LEMMA InitDuplicate == Init => DuplicateInv
  <1> SUFFICES ASSUME Init PROVE DuplicateInv
    OBVIOUS
  <1>1. /\ ws.idempotencyCutoff = 1
        /\ \A k \in Key : ws.processedRequests[k] = 0
    BY DEF Init, NewWorkflowState, NewWorkflowStateForContinuation, NoneProcessed
  <1>2. DuplicatesWereApplied
    BY DEF Init, DuplicatesWereApplied
  <1> QED
    BY <1>1, <1>2 DEF DuplicateInv

LEMMA RangeKept ==
  ASSUME SerialBase, [Next]_vars
  PROVE  Range(currentState) \subseteq Range(currentState')
  <1>1. ASSUME NEW u \in Update, currentState' = Append(currentState, u)
        PROVE  Range(currentState) \subseteq Range(currentState')
    <2>1. currentState \in States
      BY DEF SerialBase, BaseInv, StatesTypeOK
    <2> QED
      BY <1>1, <2>1, RangeAppend
  <1> QED
    BY <1>1, StateGrows

\* A step that answers nobody as a duplicate, and neither marks a key nor raises
\* the cutoff.
LEMMA DuplicateKept ==
  ASSUME SerialBase, [Next]_vars, DuplicateInv,
         \A u \in Update : pc'[u] = "duplicate" => pc[u] = "duplicate",
         ws'.idempotencyCutoff \in {0, ws.idempotencyCutoff},
         \A k \in Key : ws'.processedRequests[k] \in {0, ws.processedRequests[k]}
  PROVE  DuplicateInv'
  <1>1. \A k : (\E v \in Range(currentState) : key[v] = k) =>
                 \E v \in Range(currentState') : key[v] = k
    BY RangeKept
  <1>2. ws'.idempotencyCutoff <= 1
    BY DEF DuplicateInv
  <1>3. \A k \in Key : ws'.processedRequests[k] # 0 =>
          \E v \in Range(currentState') : key[v] = k
    BY <1>1 DEF DuplicateInv
  <1>4. DuplicatesWereApplied'
    BY <1>1 DEF DuplicateInv, DuplicatesWereApplied
  <1> QED
    BY <1>2, <1>3, <1>4 DEF DuplicateInv

LEMMA NextDuplicate ==
  ASSUME SerialBase, DuplicateInv, [Next]_vars
  PROVE  DuplicateInv'
  <1>0. pc \in [Update -> Location] /\ ws \in ControlBookkeeping /\ ControlTypeOK
    BY DEF SerialBase, BaseInv, ControlTypeOK
  <1> USE DEF engine, runVars, mainVars, time, storage, updateVars
  <1>1. ASSUME NEW u \in Update,
               RefuseUnauthorized(u) \/ TakeLock(u) \/ EngineBegin(u) \/ LateCall(u)
        PROVE  DuplicateInv'
    <2>1. ws' = ws
      BY <1>1 DEF RefuseUnauthorized, TakeLock, EngineBegin, LateCall
    <2>2. \A v \in Update : pc'[v] = "duplicate" => pc[v] = "duplicate"
      BY <1>0, <1>1 DEF RefuseUnauthorized, TakeLock, EngineBegin, LateCall
    <2> QED
      BY <2>1, <2>2, DuplicateKept
  \* The claim of the entity leaves the map and the cutoff alone.
  <1>a. ASSUME NEW u \in Update, Authorized(u)
        PROVE  /\ Claimed(u).idempotencyCutoff = ws.idempotencyCutoff
               /\ Claimed(u).processedRequests = ws.processedRequests
    <2>1. PICK m : Claimed(u) = [ws EXCEPT !.entityMetadata = m]
      BY <1>0, <1>a, ClaimedTyped
    <2> QED
      BY <1>0, <2>1 DEF ControlBookkeeping
  <1>2. ASSUME NEW u \in Update, AnswerDuplicate(u) PROVE DuplicateInv'
    <2>1. /\ ws'.idempotencyCutoff = ws.idempotencyCutoff
          /\ ws'.processedRequests = ws.processedRequests
          /\ currentState' = currentState
      BY <1>2, <1>a DEF AnswerDuplicate
    <2>2. \A v \in Update \ {u} : pc'[v] = pc[v]
      BY <1>0, <1>2 DEF AnswerDuplicate
    <2>3. /\ key[u] # NoKey
          /\ \/ requestTime[u] <= ws.idempotencyCutoff
             \/ ws.processedRequests[key[u]] # 0
      BY <1>2 DEF AnswerDuplicate, Duplicate, IsRequestProcessed
    <2>4. requestTime[u] > 1 => \E v \in Range(currentState) : key[v] = key[u]
      <3>1. requestTime[u] \in Nat /\ ws.idempotencyCutoff \in Nat /\ key[u] \in Key
        BY <1>0, <2>3 DEF ControlBookkeeping
      <3>2. requestTime[u] > 1 => ~(requestTime[u] <= ws.idempotencyCutoff)
        BY <3>1 DEF DuplicateInv
      <3> QED
        BY <2>3, <3>1, <3>2 DEF DuplicateInv
    <2>5. DuplicatesWereApplied'
      BY <2>1, <2>2, <2>4 DEF DuplicateInv, DuplicatesWereApplied
    <2> QED
      BY <2>1, <2>5 DEF DuplicateInv
  <1>3. ASSUME NEW u \in Update, Accept(u) PROVE DuplicateInv'
    <2>1. /\ Claimed(u) \in ControlBookkeeping
          /\ ws' = Counted(Claimed(u))
      BY <1>0, <1>3, ClaimedTyped DEF Accept
    <2>2. /\ ws'.idempotencyCutoff = ws.idempotencyCutoff
          /\ ws'.processedRequests = ws.processedRequests
      BY <1>3, <1>a, <2>1 DEF Accept, Counted, ControlBookkeeping
    <2>3. \A v \in Update : pc'[v] = "duplicate" => pc[v] = "duplicate"
      BY <1>0, <1>3 DEF Accept
    <2> QED
      BY <2>2, <2>3, DuplicateKept
  \* The one step that marks a key also applies the update.
  <1>4. ASSUME NEW u \in Update, EngineReturns(u) PROVE DuplicateInv'
    <2> DEFINE w == MarkRequestProcessed(ws, key[u], now)
    <2>1. /\ pc' = [pc EXCEPT ![u] = "ok"]
          /\ ws' = DecrementPendingUpdates(w)
      BY <1>4 DEF EngineReturns, Return
    <2>2. w \in ControlBookkeeping
      BY <1>0, MarkTyped DEF ControlTypeOK
    <2>3. /\ ws'.idempotencyCutoff = w.idempotencyCutoff
          /\ ws'.processedRequests = w.processedRequests
      BY <2>1, <2>2 DEF DecrementPendingUpdates, ControlBookkeeping
    <2>4. w.idempotencyCutoff = ws.idempotencyCutoff
      BY <1>0 DEF MarkRequestProcessed, ControlBookkeeping
    <2>5. \A k \in Key \ {key[u]} : w.processedRequests[k] = ws.processedRequests[k]
      <3>1. ws.processedRequests \in [Key -> 0..MaxTime]
        BY <1>0, FieldsTyped
      <3>2. CASE key[u] = NoKey
        BY <3>2 DEF MarkRequestProcessed
      <3>3. CASE key[u] # NoKey
        <4>1. w.processedRequests = [ws.processedRequests EXCEPT ![key[u]] = now]
          BY <1>0, <3>3 DEF MarkRequestProcessed, ControlBookkeeping
        <4> QED
          BY <3>1, <4>1
      <3> QED
        BY <3>2, <3>3
    <2> HIDE DEF w
    <2>6. u \in Range(currentState')
      <3>1. currentState' = Append(engineCall[u], u) /\ engineCall[u] # NotCalled
        BY <1>4 DEF EngineReturns
      <3>2. engineCall[u] \in States
        BY <3>1 DEF SerialBase, BaseInv, StatesTypeOK
      <3> QED
        BY <3>1, <3>2, RangeAppend
    <2>7. \A k \in Key : ws'.processedRequests[k] # 0 =>
            \E v \in Range(currentState') : key[v] = k
      BY <2>3, <2>5, <2>6, RangeKept DEF DuplicateInv
    <2>8. \A v \in Update : pc'[v] = "duplicate" => pc[v] = "duplicate"
      BY <1>0, <2>1
    <2>9. DuplicatesWereApplied'
      BY <2>8, RangeKept DEF DuplicateInv, DuplicatesWereApplied
    <2>10. ws'.idempotencyCutoff <= 1
      BY <2>3, <2>4 DEF DuplicateInv
    <2> QED
      BY <2>7, <2>9, <2>10 DEF DuplicateInv
  <1>5. ASSUME NEW u \in Update, EngineRefuses(u) \/ ActivityTimesOut(u)
        PROVE  DuplicateInv'
    <2>1. Return(u, "failed", ws)
      BY <1>5 DEF EngineRefuses, ActivityTimesOut
    <2>2. /\ ws'.idempotencyCutoff = ws.idempotencyCutoff
          /\ ws'.processedRequests = ws.processedRequests
      BY <1>0, <2>1 DEF Return, DecrementPendingUpdates, ControlBookkeeping
    <2>3. \A v \in Update : pc'[v] = "duplicate" => pc[v] = "duplicate"
      BY <1>0, <2>1 DEF Return
    <2> QED
      BY <2>2, <2>3, DuplicateKept
  <1>6. CASE Break \/ Drained \/ Suggest \/ Replayed \/ Tick
    BY <1>6, DuplicateKept DEF Break, Drained, Suggest, Replayed, Tick
  <1>b. ASSUME pc' = Abandoned \/ pc' = pc
        PROVE  \A u \in Update : pc'[u] = "duplicate" => pc[u] = "duplicate"
    BY <1>0, <1>b DEF Abandoned, InFlight
  <1>7. CASE ContinueAsNew
    <2>1. /\ pc' = Abandoned
          /\ ws'.idempotencyCutoff = 0
          /\ \A k \in Key : ws'.processedRequests[k] = 0
      BY <1>7 DEF ContinueAsNew, Transported, NoneProcessed
    <2> QED
      BY <1>b, <2>1, DuplicateKept
  <1>8. CASE CompressFails \/ Cancel
    <2>1. ws' = ws /\ (pc' = Abandoned \/ pc' = pc)
      BY <1>8 DEF CompressFails, Cancel, Fail
    <2> QED
      BY <1>b, <2>1, DuplicateKept
  <1>9. ASSUME NEW r \in storing, RecordStored(r) \/ RecordDropped(r)
        PROVE  DuplicateInv'
    BY <1>9, DuplicateKept DEF RecordStored, RecordDropped
  <1>10. CASE UNCHANGED vars
    BY <1>10, DuplicateKept DEF vars
  <1> QED
    BY <1>1, <1>2, <1>3, <1>4, <1>5, <1>6, <1>7, <1>8, <1>9, <1>10, ReplayKinds
    DEF Next, Step, Answer

\* Without timeouts, replays and suggestions, who is told that a key of theirs
\* was processed before is told so of an update in the state, resent keys and
\* refused events included.
THEOREM EntityDuplicatesWereApplied ==
  ASSUME SteadyEngine, Unsuggested
  PROVE  Spec => []DuplicatesWereApplied
  <1>1. SerialBase /\ DuplicateInv /\ [Next]_vars => (SerialBase /\ DuplicateInv)'
    BY NextSerialBase, NextDuplicate
  <1>2. DuplicateInv => DuplicatesWereApplied
    BY DEF DuplicateInv
  <1> QED
    BY <1>1, <1>2, InitSerialBase, InitDuplicate, PTL DEF Spec
===============================================================================
