--------------------------- MODULE EntityFaultProofs ---------------------------
(***************************************************************************)
(* Fault by fault: what an entity promises its clients under every fault,  *)
(* and for each promise that a violation run breaks, the faults without    *)
(* which it holds and no others.                                           *)
(***************************************************************************)
EXTENDS EntitySerialProofs

USE EntityWorkflowAssumption, WorkflowStateAssumption, IdempotencyAssumption

-----------------------------------------------------------------------------
(***************************************************************************)
(* The states at hand: the copies of the workflow and of the engine, what  *)
(* the run was started with, what it hands on, and what each call read.    *)
(***************************************************************************)
Called == {u \in Update : engineCall[u] # NotCalled}

Held == {currentState, engineState, initialState, compressing}
          \cup {engineCall[u] : u \in Called}

\* The engine call of an update ends, in time or not.
CallEnds(u) ==
  /\ u \in Called
  /\ \/ EngineReturns(u)
     \/ pc[u] # "activity" /\ LateCall(u)

LEMMA HeldTyped ==
  ASSUME StatesTypeOK
  PROVE  Held \subseteq States
  BY DEF StatesTypeOK, Held, Called

\* No state comes from anywhere but a call that ends, which adds its update to
\* the state it read.
LEMMA HeldStep ==
  ASSUME StatesTypeOK, [Next]_vars, NEW s \in Held'
  PROVE  \/ s \in Held
         \/ s = <<>>
         \/ \E u \in Update : CallEnds(u) /\ s = Append(engineCall[u], u)
  <1>0. engineCall \in [Update -> States \cup {NotCalled}]
    BY DEF StatesTypeOK
  <1> USE DEF Held, Called, engine, runVars, mainVars, time, storage, updateVars
  \* A step that makes no state and at most takes calls back.
  <1>a. ASSUME currentState' \in Held, engineState' \in Held,
               initialState' \in Held, compressing' \in Held \cup {<<>>},
               \A u \in Update : engineCall'[u] \in Held \cup {engineCall[u], NotCalled}
        PROVE  s \in Held \/ s = <<>>
    BY <1>a
  <1>1. ASSUME NEW u \in Update,
               RefuseUnauthorized(u) \/ AnswerDuplicate(u) \/ Accept(u)
                 \/ TakeLock(u) \/ ActivityTimesOut(u)
        PROVE  s \in Held
    BY <1>1 DEF RefuseUnauthorized, AnswerDuplicate, Accept, TakeLock,
                ActivityTimesOut
  <1>2. ASSUME NEW u \in Update, EngineBegin(u) PROVE s \in Held \/ s = <<>>
    BY <1>0, <1>2, <1>a DEF EngineBegin
  <1>3. ASSUME NEW u \in Update, EngineRefuses(u) PROVE s \in Held \/ s = <<>>
    BY <1>0, <1>3, <1>a DEF EngineRefuses
  <1>4. ASSUME NEW u \in Update, EngineReturns(u) \/ LateCall(u)
        PROVE  CallEnds(u) /\ (s \in Held \/ s = Append(engineCall[u], u))
    <2>1. /\ u \in Called
          /\ engineCall' = [engineCall EXCEPT ![u] = NotCalled]
          /\ UNCHANGED <<initialState, compressing>>
          /\ engineState' \in {engineCall[u], Append(engineCall[u], u)}
          /\ currentState' \in {currentState, engineState'}
      BY <1>4 DEF EngineReturns, LateCall
    <2>2. \A v \in Called' : v \in Called /\ engineCall'[v] = engineCall[v]
      BY <1>0, <2>1
    <2>3. CallEnds(u)
      BY <1>4 DEF EngineReturns, LateCall, CallEnds
    <2>4. s \in Held \/ s = Append(engineCall[u], u)
      <3>1. CASE s \in {currentState', engineState', initialState', compressing'}
        BY <2>1, <3>1
      <3>2. CASE s \in {engineCall'[v] : v \in Called'}
        BY <2>2, <3>2
      <3> QED
        BY <3>1, <3>2
    <2> QED
      BY <2>3, <2>4
  <1>5. CASE Break \/ Suggest \/ Tick
    BY <1>5 DEF Break, Suggest, Tick
  <1>6. CASE Drained
    BY <1>6, <1>a DEF Drained
  <1>7. CASE ContinueAsNew
    BY <1>7, <1>a DEF ContinueAsNew, NoCall
  <1>8. CASE CompressFails \/ Cancel
    BY <1>8, <1>a DEF CompressFails, Cancel, Fail, NoCall
  <1>9. CASE Replayed
    BY <1>9, <1>a DEF Replayed, NoCall
  <1>10. ASSUME NEW r \in storing, RecordStored(r) \/ RecordDropped(r)
         PROVE  s \in Held
    BY <1>10 DEF RecordStored, RecordDropped
  <1>11. CASE UNCHANGED vars
    BY <1>11 DEF vars
  <1> QED
    BY <1>1, <1>2, <1>3, <1>4, <1>5, <1>6, <1>7, <1>8, <1>9, <1>10, <1>11, ReplayKinds
    DEF Next, Step, Answer

\* A call begins in an activity that is awaited, and in no other step.
LEMMA CalledStep ==
  ASSUME StatesTypeOK, [Next]_vars, NEW u \in Called'
  PROVE  u \in Called \/ EngineBegin(u)
  <1>0. engineCall \in [Update -> States \cup {NotCalled}]
    BY DEF StatesTypeOK
  <1> USE DEF Called, engine, runVars, mainVars, time, storage, updateVars
  <1>1. ASSUME NEW v \in Update,
               RefuseUnauthorized(v) \/ AnswerDuplicate(v) \/ Accept(v)
                 \/ TakeLock(v) \/ Answer(v) \/ LateCall(v)
        PROVE  u \in Called
    BY <1>0, <1>1 DEF RefuseUnauthorized, AnswerDuplicate, Accept, TakeLock,
                      Answer, EngineReturns, EngineRefuses, ActivityTimesOut,
                      LateCall
  <1>2. ASSUME NEW v \in Update, EngineBegin(v)
        PROVE  u \in Called \/ EngineBegin(u)
    <2>1. CASE u = v
      BY <1>2, <2>1
    <2>2. CASE u # v
      BY <1>0, <1>2, <2>2 DEF EngineBegin
    <2> QED
      BY <2>1, <2>2
  <1>3. CASE \/ Break \/ Drained \/ Suggest \/ Tick \/ ContinueAsNew
             \/ CompressFails \/ Cancel \/ Replayed
    <2>1. engineCall' = engineCall \/ engineCall' = NoCall
      BY <1>3 DEF Break, Drained, Suggest, Tick, ContinueAsNew, CompressFails,
                  Cancel, Fail, Replayed
    <2> QED
      BY <2>1 DEF NoCall
  <1>4. ASSUME NEW r \in storing, RecordStored(r) \/ RecordDropped(r)
        PROVE  u \in Called
    BY <1>4 DEF RecordStored, RecordDropped
  <1>5. CASE UNCHANGED vars
    BY <1>5 DEF vars
  <1> QED
    BY <1>1, <1>2, <1>3, <1>4, <1>5, ReplayKinds DEF Next, Step

-----------------------------------------------------------------------------
(***************************************************************************)
(* Each update is applied once.  Who waits, or is in the engine, is in no  *)
(* state at hand.                                                          *)
(***************************************************************************)
Fresh(u) == pc[u] \in {"idle", "locking", "activity"} \/ u \in Called

OnceInv ==
  /\ \A u \in Called : pc[u] \notin {"idle", "locking"}
  /\ \A s \in Held : IsInjective(s) /\ \A u \in Range(s) : ~Fresh(u)

LEMMA InitOnce == Init => OnceInv
  BY DEF Init, OnceInv, Held, Called, IsInjective, Range

LEMMA InjectiveAppend ==
  ASSUME NEW s \in States, NEW u \in Update, IsInjective(s), u \notin Range(s)
  PROVE  IsInjective(Append(s, u))
  <1> DEFINE t == Append(s, u)
  <1>1. /\ Len(s) \in Nat
        /\ DOMAIN s = 1..Len(s)
        /\ DOMAIN t = 1..Len(s) + 1
        /\ \A i \in 1..Len(s) : t[i] = s[i]
        /\ t[Len(s) + 1] = u
    BY AppendProperties, LenProperties DEF States
  <1> HIDE DEF t
  <1>2. \A i \in 1..Len(s) : s[i] # u
    BY <1>1 DEF Range
  <1>3. \A i \in DOMAIN t : i \in 1..Len(s) \/ i = Len(s) + 1
    BY <1>1
  <1>4. IsInjective(t)
    BY <1>1, <1>2, <1>3 DEF IsInjective
  <1> QED
    BY <1>4 DEF t

\* Nobody who is through comes back.
LEMMA FreshStep ==
  ASSUME ControlTypeOK, StatesTypeOK, [Next]_vars, NEW u \in Update
  PROVE  /\ Fresh(u)' => Fresh(u)
         /\ pc'[u] \in {"idle", "locking"} => pc[u] \in {"idle", "locking"}
  <1>0. pc \in [Update -> Location]
    BY DEF ControlTypeOK
  <1>1. /\ pc'[u] \in {"idle", "locking", "activity"} =>
             pc[u] \in {"idle", "locking", "activity"}
        /\ pc'[u] \in {"idle", "locking"} => pc[u] \in {"idle", "locking"}
    BY <1>0, StepKind DEF Untouched, Ended, Abandoned, InFlight, TurnedAway, LetIn,
                          Resumed, Returned
  <1>2. u \in Called' => u \in Called \/ pc[u] = "activity"
    BY CalledStep DEF EngineBegin
  <1> QED
    BY <1>1, <1>2 DEF Fresh

LEMMA NextOnce ==
  ASSUME ControlTypeOK, StatesTypeOK, OnceInv, [Next]_vars
  PROVE  OnceInv'
  <1>0. /\ pc \in [Update -> Location]
        /\ engineCall \in [Update -> States \cup {NotCalled}]
    BY DEF ControlTypeOK, StatesTypeOK
  <1>1. ASSUME NEW u \in Called'
        PROVE  pc'[u] \notin {"idle", "locking"}
    <2>1. u \in Update
      BY DEF Called
    <2>2. pc[u] \notin {"idle", "locking"}
      BY CalledStep DEF OnceInv, EngineBegin
    <2> QED
      BY <2>1, <2>2, FreshStep
  \* The update a call has added is through.
  <1>2. ASSUME NEW u \in Update, CallEnds(u)
        PROVE  /\ IsInjective(Append(engineCall[u], u))
               /\ \A v \in Range(Append(engineCall[u], u)) : ~Fresh(v)'
    <2>1. /\ u \in Called
          /\ engineCall[u] \in Held
          /\ engineCall[u] \in States
      BY <1>0, <1>2 DEF CallEnds, Called, Held
    <2>2. Fresh(u)
      BY <2>1 DEF Fresh
    <2>3. u \notin Range(engineCall[u]) /\ IsInjective(engineCall[u])
      BY <2>1, <2>2 DEF OnceInv
    <2>4. Range(Append(engineCall[u], u)) = Range(engineCall[u]) \cup {u}
      BY <2>1, RangeAppend
    <2>5. ~Fresh(u)'
      <3>1. engineCall' = [engineCall EXCEPT ![u] = NotCalled]
        BY <1>2 DEF CallEnds, EngineReturns, LateCall
      <3>2. u \notin Called'
        BY <1>0, <3>1 DEF Called
      <3>3. pc'[u] \notin {"idle", "locking", "activity"}
        <4>1. CASE EngineReturns(u)
          BY <1>0, <4>1 DEF EngineReturns, Return
        <4>2. CASE pc[u] # "activity" /\ LateCall(u)
          BY <2>1, <4>2 DEF LateCall, OnceInv, updateVars
        <4> QED
          BY <1>2, <4>1, <4>2 DEF CallEnds
      <3> QED
        BY <3>2, <3>3 DEF Fresh
    <2>6. \A v \in Range(engineCall[u]) : v \in Update /\ ~Fresh(v)
      <3>1. \A i \in DOMAIN engineCall[u] : engineCall[u][i] \in Update
        BY <2>1, ElementOfSeq, LenProperties DEF States
      <3> QED
        BY <2>1, <3>1 DEF OnceInv, Range
    <2>7. \A v \in Range(engineCall[u]) : ~Fresh(v)'
      BY <2>6, FreshStep
    <2> QED
      BY <2>1, <2>3, <2>4, <2>5, <2>7, InjectiveAppend
  <1>3. ASSUME NEW s \in Held
        PROVE  IsInjective(s) /\ \A v \in Range(s) : ~Fresh(v)'
    <2>1. \A v \in Range(s) : v \in Update
      BY HeldTyped, ElementOfSeq, LenProperties DEF States, Range
    <2> QED
      BY <2>1, FreshStep DEF OnceInv
  <1>4. IsInjective(<<>>) /\ Range(<<>>) = {}
    BY DEF IsInjective, Range
  <1>5. \A s \in Held' : IsInjective(s) /\ \A v \in Range(s) : ~Fresh(v)'
    BY <1>2, <1>3, <1>4, HeldStep
  <1> QED
    BY <1>1, <1>5 DEF OnceInv

\* No update is applied twice, under any fault: neither a call that outlived its
\* activity nor a replay adds one again.
THEOREM EntityAppliedOnce == Spec => []AppliedOnce
  <1> DEFINE IInv == ControlTypeOK /\ StatesTypeOK /\ OnceInv
  <1>1. Init => IInv
    BY InitControl, InitStates, InitOnce
  <1>2. IInv /\ [Next]_vars => IInv'
    BY NextControl, NextStates, NextOnce
  <1>3. IInv => AppliedOnce
    BY DEF OnceInv, Held, AppliedOnce
  <1> QED
    BY <1>1, <1>2, <1>3, PTL DEF Spec

-----------------------------------------------------------------------------
(***************************************************************************)
(* Where activities do not time out, the mutex is as good as a lock of the *)
(* engine: who is in the engine is awaited.                                *)
(***************************************************************************)
Punctual == "timeout" \notin Faults

CallersWait == \A u \in Called : pc[u] = "activity"

LEMMA InitWaits == Init => CallersWait
  BY DEF Init, CallersWait, Called

LEMMA NextWaits ==
  ASSUME Punctual, ControlTypeOK, StatesTypeOK, CallersWait, [Next]_vars
  PROVE  CallersWait'
  <1>0. /\ pc \in [Update -> Location]
        /\ engineCall \in [Update -> States \cup {NotCalled}]
    BY DEF ControlTypeOK, StatesTypeOK
  <1> USE DEF engine, runVars, mainVars, time, storage, updateVars
  \* A step that leaves alone who is in an activity, or takes the calls back.
  <1>a. ASSUME \A u \in Called' : u \in Called /\ pc'[u] = pc[u]
        PROVE  CallersWait'
    BY <1>a DEF CallersWait
  <1>1. ASSUME NEW u \in Update,
               RefuseUnauthorized(u) \/ AnswerDuplicate(u) \/ Accept(u)
                 \/ TakeLock(u)
        PROVE  CallersWait'
    <2>1. /\ engineCall' = engineCall
          /\ pc[u] \in {"idle", "locking"}
          /\ \A v \in Update \ {u} : pc'[v] = pc[v]
      BY <1>0, <1>1 DEF RefuseUnauthorized, AnswerDuplicate, Accept, TakeLock,
                        Admitted
    <2>2. u \notin Called
      BY <2>1 DEF CallersWait
    <2> QED
      BY <2>1, <2>2, <1>a DEF Called
  <1>2. ASSUME NEW u \in Update, EngineBegin(u) PROVE CallersWait'
    BY <1>0, <1>2 DEF EngineBegin, CallersWait, Called
  <1>3. ASSUME NEW u \in Update, EngineReturns(u) \/ EngineRefuses(u)
        PROVE  CallersWait'
    <2>1. /\ engineCall' = [engineCall EXCEPT ![u] = NotCalled]
          /\ \A v \in Update \ {u} : pc'[v] = pc[v]
      BY <1>0, <1>3 DEF EngineReturns, EngineRefuses, Return
    <2> QED
      BY <1>0, <2>1, <1>a DEF Called
  <1>4. ASSUME NEW u \in Update PROVE ~ActivityTimesOut(u) /\ ~LateCall(u)
    BY DEF ActivityTimesOut, LateCall, Punctual, CallersWait, Called
  <1>5. CASE Break \/ Drained \/ Suggest \/ Tick
    BY <1>5, <1>a DEF Break, Drained, Suggest, Tick, Called
  <1>6. CASE ContinueAsNew \/ CompressFails \/ Cancel \/ Replayed
    <2>1. UNCHANGED <<pc, engineCall>> \/ engineCall' = NoCall
      BY <1>6 DEF ContinueAsNew, CompressFails, Cancel, Fail, Replayed
    <2> QED
      BY <2>1, <1>a DEF Called, NoCall
  <1>7. ASSUME NEW r \in storing, RecordStored(r) \/ RecordDropped(r)
        PROVE  CallersWait'
    BY <1>7, <1>a DEF RecordStored, RecordDropped, Called
  <1>8. CASE UNCHANGED vars
    BY <1>8, <1>a DEF vars, Called
  <1> QED
    BY <1>1, <1>2, <1>3, <1>4, <1>5, <1>6, <1>7, <1>8, ReplayKinds DEF Next, Step, Answer

WaitInv == ControlTypeOK /\ StatesTypeOK /\ LockDiscipline /\ CallersWait

LEMMA InitWaitInv == Init => WaitInv
  BY InitControl, InitStates, InitLock, InitWaits DEF WaitInv

LEMMA NextWaitInv ==
  ASSUME Punctual, WaitInv, [Next]_vars
  PROVE  WaitInv'
  BY NextControl, NextStates, NextLock, NextWaits DEF WaitInv

\* Only one event is processed at a time, as a comment says, as long as no
\* activity times out; replays, repeated keys and whatever else may occur.
THEOREM EntityOneEventAtATime ==
  ASSUME Punctual
  PROVE  Spec => []OneEventAtATime
  <1>1. WaitInv /\ [Next]_vars => WaitInv'
    BY NextWaitInv
  <1>2. WaitInv => OneEventAtATime
    <2> SUFFICES ASSUME WaitInv, NEW u \in Called, NEW v \in Called
                 PROVE  u = v
      BY DEF OneEventAtATime, Called
    <2>1. pc[u] = "activity" /\ pc[v] = "activity"
      BY DEF WaitInv, CallersWait
    <2> QED
      BY <2>1 DEF WaitInv, LockDiscipline, Called
  <1> QED
    BY <1>1, <1>2, InitWaitInv, PTL DEF Spec

-----------------------------------------------------------------------------
(***************************************************************************)
(* No key is applied twice.  With patient clients and punctual activities  *)
(* a state at hand holds acknowledged updates only, and of those no two    *)
(* share a key: replays and suggestions may lose updates, never repeat     *)
(* them.                                                                   *)
(***************************************************************************)
AckedInv ==
  /\ \A s \in Held : Range(s) \subseteq acked
  /\ \A u, v \in acked : u # v => ~SameKey(u, v)

LEMMA InitAcked == Init => AckedInv
  BY DEF Init, AckedInv, Held, Called, acked, Range

\* At most one update is acknowledged in a step, and it was in its activity.
LEMMA AckedStep ==
  ASSUME ControlTypeOK, [Next]_vars
  PROVE  \/ acked' = acked
         \/ \E u \in Update : pc[u] = "activity" /\ acked' = acked \cup {u}
  <1>0. pc \in [Update -> Location]
    BY DEF ControlTypeOK
  <1>1. ASSUME NEW u \in Update, Returned(u)
        PROVE  /\ pc[u] = "activity"
               /\ acked' = acked \/ acked' = acked \cup {u}
    <2>1. PICK a \in {"ok", "failed"} : pc' = [pc EXCEPT ![u] = a]
      BY <1>1 DEF Returned
    <2>2. pc[u] = "activity"
      BY <1>1 DEF Returned
    <2>3. \A v \in Update : pc'[v] = IF v = u THEN a ELSE pc[v]
      BY <1>0, <2>1
    <2>4. CASE a = "ok"
      BY <2>2, <2>3, <2>4 DEF acked
    <2>5. CASE a = "failed"
      BY <2>2, <2>3, <2>5 DEF acked
    <2> QED
      BY <2>1, <2>2, <2>4, <2>5
  <1>2. ASSUME \/ Untouched
               \/ Ended
               \/ \E u \in Update : TurnedAway(u) \/ LetIn(u) \/ Resumed(u)
        PROVE  acked' = acked
    BY <1>0, <1>2 DEF Untouched, Ended, Abandoned, InFlight, TurnedAway, LetIn,
                      Resumed, acked
  <1> QED
    BY <1>1, <1>2, StepKind

LEMMA NextAcked ==
  ASSUME WaitInv, KeyInv, AckedInv, [Next]_vars
  PROVE  AckedInv'
  <1>0. /\ pc \in [Update -> Location]
        /\ engineCall \in [Update -> States \cup {NotCalled}]
        /\ ControlTypeOK /\ StatesTypeOK
    BY DEF WaitInv, ControlTypeOK, StatesTypeOK
  <1>1. acked \subseteq acked'
    BY <1>0, AckedStep
  <1>2. ASSUME NEW u \in Update, CallEnds(u)
        PROVE  Range(Append(engineCall[u], u)) \subseteq acked'
    <2>1. EngineReturns(u) /\ u \in Called
      BY <1>2 DEF CallEnds, WaitInv, CallersWait
    <2>2. u \in acked'
      BY <1>0, <2>1 DEF EngineReturns, Return, acked
    <2>3. engineCall[u] \in States /\ engineCall[u] \in Held
      BY <1>0, <2>1 DEF Called, Held
    <2>4. Range(Append(engineCall[u], u)) = Range(engineCall[u]) \cup {u}
      BY <2>3, RangeAppend
    <2> QED
      BY <1>1, <2>2, <2>3, <2>4 DEF AckedInv
  <1>3. Range(<<>>) = {}
    BY DEF Range
  <1>4. \A s \in Held' : Range(s) \subseteq acked'
    BY <1>0, <1>1, <1>2, <1>3, HeldStep DEF AckedInv
  <1>5. \A u, v \in acked' : u # v => ~SameKey(u, v)
    <2>1. ASSUME NEW u \in Update, pc[u] = "activity"
          PROVE  \A v \in acked : v # u => ~SameKey(u, v) /\ ~SameKey(v, u)
      BY <2>1 DEF acked, KeyInv, SameKey, InFlight
    <2>2. CASE acked' = acked
      BY <2>2 DEF AckedInv
    <2>3. ASSUME NEW u \in Update, pc[u] = "activity", acked' = acked \cup {u}
          PROVE  \A v, w \in acked' : v # w => ~SameKey(v, w)
      BY <2>1, <2>3 DEF AckedInv
    <2> QED
      BY <1>0, <2>2, <2>3, AckedStep
  <1> QED
    BY <1>4, <1>5 DEF AckedInv, SameKey

\* No key is applied twice to clients that wait for their answers, unless an
\* activity times out: a replay may lose what was applied, and a run may end
\* early, but neither lets a key in again.
THEOREM EntityAtMostOnce ==
  ASSUME PatientClients, Punctual
  PROVE  Spec => []AtMostOnce
  <1> DEFINE IInv == WaitInv /\ KeyInv /\ AckedInv
  <1>1. Init => IInv
    BY InitWaitInv, InitKey, InitAcked
  <1>2. IInv /\ [Next]_vars => IInv'
    BY NextWaitInv, NextKey, NextAcked DEF WaitInv
  <1>3. IInv => AtMostOnce
    BY DEF AckedInv, Held, AtMostOnce, SameKey
  <1> QED
    BY <1>1, <1>2, <1>3, PTL DEF Spec

-----------------------------------------------------------------------------
(***************************************************************************)
(* What was acknowledged is in the state.  Here keys do not matter.        *)
(***************************************************************************)
LEMMA NextNotLost ==
  ASSUME SerialBase, AckedNotLost, [Next]_vars
  PROVE  AckedNotLost'
  <1>1. acked \subseteq Range(currentState)
    BY DEF AckedNotLost, acked
  <1>2. CASE currentState' = currentState /\ acked' = acked
    BY <1>1, <1>2 DEF AckedNotLost, acked
  <1>3. ASSUME NEW u \in Update, currentState' = Append(currentState, u),
               acked' = acked \cup {u}
        PROVE  AckedNotLost'
    <2>1. currentState \in States
      BY DEF SerialBase, BaseInv, StatesTypeOK
    <2>2. Range(currentState') = Range(currentState) \cup {u}
      BY <1>3, <2>1, RangeAppend
    <2>3. acked' \subseteq Range(currentState')
      BY <1>1, <1>3, <2>2
    <2> QED
      BY <2>3 DEF AckedNotLost, acked
  <1> QED
    BY <1>2, <1>3, AcknowledgedGrows

\* What a client was told was applied stays in the state across every drain and
\* continuation, as long as no activity times out, nothing is replayed and the
\* server suggests nothing; clients may send their keys as they like.
THEOREM EntityAckedNotLost ==
  ASSUME SteadyEngine, Unsuggested
  PROVE  Spec => []AckedNotLost
  <1>1. Init => AckedNotLost
    BY DEF Init, AckedNotLost
  <1>2. SerialBase /\ AckedNotLost /\ [Next]_vars => (SerialBase /\ AckedNotLost)'
    BY NextSerialBase, NextNotLost
  <1> QED
    BY <1>1, <1>2, InitSerialBase, PTL DEF Spec

-----------------------------------------------------------------------------
(***************************************************************************)
(* The records.  Every record, stored or on its way, is of an update that  *)
(* was acknowledged, under the number it was given; as no two updates got  *)
(* one number, the insert that is refused is of a record that is there.    *)
(***************************************************************************)
RecordOf(u, r) ==
  /\ r.sequenceNumber = sequence[u]
  /\ r.currentState[Len(r.currentState)] = u

RecordInv ==
  /\ EveryUpdateRecorded
  /\ \A r \in storing \cup records : \E u \in Update : pc[u] = "ok" /\ RecordOf(u, r)

LEMMA InitRecord == Init => RecordInv
  BY DEF Init, RecordInv, EveryUpdateRecorded

\* A step that answers "ok" to nobody, and neither drops nor adds a record.
LEMMA RecordKept ==
  ASSUME ControlTypeOK, RecordInv,
         \A u \in Update : pc'[u] = "ok" <=> pc[u] = "ok",
         \A u \in Update : pc[u] = "ok" => sequence'[u] = sequence[u],
         (storing \cup records)' = storing \cup records
  PROVE  RecordInv'
  <1>1. \A r : \A u \in Update : pc[u] = "ok" /\ RecordOf(u, r) => RecordOf(u, r)'
    BY DEF RecordOf
  <1>2. EveryUpdateRecorded'
    BY <1>1 DEF RecordInv, EveryUpdateRecorded, RecordOf
  <1> QED
    BY <1>1, <1>2 DEF RecordInv

LEMMA NextRecord ==
  ASSUME Faults \cap {"storage", "task"} = {}, ControlTypeOK, StatesTypeOK,
         NumberedOnce, RecordInv, [Next]_vars
  PROVE  RecordInv'
  <1>0. /\ pc \in [Update -> Location]
        /\ sequence \in [Update -> Nat]
        /\ engineCall \in [Update -> States \cup {NotCalled}]
    BY DEF ControlTypeOK, StatesTypeOK
  <1> USE DEF engine, runVars, mainVars, time, storage, updateVars
  <1>1. ASSUME NEW u \in Update, Step(u), ~EngineReturns(u) PROVE RecordInv'
    <2>1. UNCHANGED <<storing, records>>
      BY <1>1 DEF Step, Answer, RefuseUnauthorized, AnswerDuplicate, Accept,
           TakeLock, EngineBegin, EngineRefuses, ActivityTimesOut, LateCall
    <2>2. \A v \in Update : pc'[v] = "ok" <=> pc[v] = "ok"
      BY <1>0, <1>1 DEF Step, Answer, RefuseUnauthorized, AnswerDuplicate, Accept,
           Admitted, TakeLock, EngineBegin, EngineRefuses, ActivityTimesOut,
           LateCall, Return
    <2>3. \A v \in Update : pc[v] = "ok" => sequence'[v] = sequence[v]
      BY <1>0, <1>1 DEF Step, Answer, RefuseUnauthorized, AnswerDuplicate, Accept,
           Admitted, TakeLock, EngineBegin, EngineRefuses, ActivityTimesOut,
           LateCall
    <2> QED
      BY <2>1, <2>2, <2>3, RecordKept
  <1>2. ASSUME NEW u \in Update, EngineReturns(u) PROVE RecordInv'
    <2> DEFINE new == Record(u, Append(engineCall[u], u))
    <2>1. /\ pc' = [pc EXCEPT ![u] = "ok"]
          /\ storing' = IF HasStorage THEN storing \cup {new} ELSE storing
          /\ UNCHANGED <<sequence, records>>
          /\ engineCall[u] \in States
      BY <1>0, <1>2 DEF EngineReturns, Return
    <2>2. RecordOf(u, new)
      <3>1. /\ Len(Append(engineCall[u], u)) = Len(engineCall[u]) + 1
            /\ Append(engineCall[u], u)[Len(engineCall[u]) + 1] = u
        BY <2>1, AppendProperties DEF States
      <3> QED
        BY <3>1 DEF RecordOf, Record
    <2> HIDE DEF new
    <2>3. \A v, r : RecordOf(v, r)' <=> RecordOf(v, r)
      BY <2>1 DEF RecordOf
    <2>4. \A v \in Update : pc'[v] = "ok" <=> pc[v] = "ok" \/ v = u
      BY <1>0, <2>1
    <2>5. EveryUpdateRecorded'
      BY <2>1, <2>2, <2>3, <2>4 DEF RecordInv, EveryUpdateRecorded, RecordOf
    <2>6. \A r \in (storing \cup records)' :
            \E v \in Update : pc'[v] = "ok" /\ RecordOf(v, r)'
      BY <2>1, <2>2, <2>3, <2>4 DEF RecordInv
    <2> QED
      BY <2>5, <2>6 DEF RecordInv
  <1>3. CASE \/ Break \/ Drained \/ Suggest \/ Replay \/ Tick
             \/ ContinueAsNew \/ CompressFails \/ Cancel
    <2>1. /\ pc' = pc \/ pc' = Abandoned
          /\ UNCHANGED <<sequence, storing, records>>
      BY <1>3 DEF Break, Drained, Suggest, Replay, Replayed, Tick, ContinueAsNew,
                  CompressFails, Cancel, Fail
    <2>2. \A v \in Update : pc'[v] = "ok" <=> pc[v] = "ok"
      BY <1>0, <2>1 DEF Abandoned, InFlight
    <2> QED
      BY <2>1, <2>2, RecordKept
  \* The record that is refused is one of the update whose record is there.
  <1>4. ASSUME NEW r \in storing, RecordStored(r) PROVE RecordInv'
    <2>1. UNCHANGED <<pc, sequence>>
      BY <1>4 DEF RecordStored
    <2>2. CASE \A q \in records : q.sequenceNumber # r.sequenceNumber
      <3>1. (storing \cup records)' = storing \cup records
        BY <1>4, <2>2 DEF RecordStored, Inserted
      <3> QED
        BY <2>1, <3>1, RecordKept
    <2>3. ASSUME NEW q \in records, q.sequenceNumber = r.sequenceNumber
          PROVE  RecordInv'
      <3>1. storing' = storing \ {r} /\ records' = records
        BY <1>4, <2>3 DEF RecordStored, Inserted
      <3>2. PICK u \in Update : pc[u] = "ok" /\ RecordOf(u, r)
        BY DEF RecordInv
      <3>3. PICK v \in Update : pc[v] = "ok" /\ RecordOf(v, q)
        BY DEF RecordInv
      <3>4. u = v
        BY <2>3, <3>2, <3>3 DEF RecordOf, NumberedOnce, WasLetIn
      <3>5. \A w \in Update : RecordOf(w, r) => w = v
        BY <3>2, <3>4 DEF RecordOf
      <3>6. \A w, p : RecordOf(w, p)' <=> RecordOf(w, p)
        BY <2>1 DEF RecordOf
      <3>7. ASSUME HasStorage, NEW w \in Update, pc[w] = "ok"
            PROVE  \E p \in storing' \cup records' : RecordOf(w, p)
        <4>1. PICK p \in storing \cup records : RecordOf(w, p)
          BY <3>7 DEF RecordInv, EveryUpdateRecorded, RecordOf
        <4> QED
          BY <3>1, <3>3, <3>5, <4>1
      <3>8. EveryUpdateRecorded'
        BY <2>1, <3>7 DEF EveryUpdateRecorded, RecordOf
      <3> QED
        BY <2>1, <3>1, <3>6, <3>8 DEF RecordInv
    <2> QED
      BY <2>2, <2>3
  <1>5. /\ \A r \in storing : ~RecordDropped(r)
        /\ \A u \in Update : ~LoseTask(u)
    BY DEF RecordDropped, LoseTask
  <1>6. CASE UNCHANGED vars
    BY <1>6, RecordKept DEF vars
  <1> QED
    BY <1>1, <1>2, <1>3, <1>4, <1>5, <1>6 DEF Next

\* Every update that was applied has its record, whatever times out, is replayed
\* or ends early, unless a storage activity gives up or a workflow task is lost
\* half way: the row such a task leaves keeps its number (the storage activity of
\* the handler).
THEOREM EntityEveryUpdateRecorded ==
  ASSUME Faults \cap {"storage", "task"} = {}
  PROVE  Spec => []EveryUpdateRecorded
  <1> DEFINE IInv == ControlTypeOK /\ StatesTypeOK /\ NumberedInv /\ RecordInv
  <1>1. Init => IInv
    BY InitControl, InitStates, InitNumbered, InitRecord
  <1>2. IInv /\ [Next]_vars => IInv'
    BY NextControl, NextStates, NextNumbered, NextRecord DEF NumberedInv
  <1>3. IInv => EveryUpdateRecorded
    BY DEF RecordInv
  <1> QED
    BY <1>1, <1>2, <1>3, PTL DEF Spec
==============================================================================
