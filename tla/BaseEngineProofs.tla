-------------------------- MODULE BaseEngineProofs --------------------------
(***************************************************************************)
(* What BaseEngine promises, for every processor, every set of states and  *)
(* events and every bound.                                                 *)
(***************************************************************************)
EXTENDS BaseEngine, TLAPS

USE EventsAssumption, EngineAssumption

\* A batch is a sequence of envelopes; the empty one stands for nil.
LEMMA BatchIsSequence ==
  ASSUME NEW batch \in Batch
  PROVE  /\ batch \in Seq(Envelope)
         /\ Len(batch) \in Nat
         /\ \A i \in 1..Len(batch) :
              /\ batch[i] \in Envelope
              /\ batch[i].sequenceNumber \in 1..MaxSequence
  <1>1. PICK n \in 0..MaxBatch : batch \in [1..n -> Envelope]
    BY DEF Batch
  <1>2. batch \in Seq(Envelope) /\ Len(batch) = n
    BY <1>1
  <1> QED
    BY <1>1, <1>2 DEF Envelope

LEMMA EmptyBatch == <<>> \in Batch /\ Len(<<>>) = 0
  <1>1. <<>> \in [1..0 -> Envelope]
    OBVIOUS
  <1> QED
    BY <1>1 DEF Batch

LEMMA SequenceNumbersBounded ==
  ASSUME NEW batch \in Batch
  PROVE  SequenceNumbers(batch) \subseteq 1..MaxSequence
  BY BatchIsSequence DEF SequenceNumbers

-----------------------------------------------------------------------------
(***************************************************************************)
(* The inductive invariant of the engine under any calls.  TypeOK alone is *)
(* not inductive: that Commit installs a state depends on the shadow state *)
(* being one whenever the engine is PREPARED, which is TransactionConsistent. *)
(***************************************************************************)
EngineInv == TypeOK /\ TransactionConsistent

LEMMA InitEngineInv == Init => EngineInv
  <1> SUFFICES ASSUME Init PROVE EngineInv
    OBVIOUS
  <1>1. /\ initialized \in BOOLEAN
        /\ businessState \in IF initialized THEN State ELSE {NoState}
    BY DEF Init
  <1>2. /\ preparedEvents \in Batch
        /\ shadowState \in State \cup {NoState}
        /\ transactionState \in {"IDLE", "PREPARED"}
    BY EmptyBatch DEF Init
  <1>3. /\ currentTransactionId \in 0..MaxTransactions
        /\ transactionCounter \in 0..MaxTransactions
        /\ lastProcessedSequence \in 0..MaxSequence
        /\ totalEventsProcessed \in Nat
        /\ applied \subseteq 1..MaxSequence
    BY DEF Init
  <1>4. outcome \in [TransactionId -> {"none", "committed", "aborted"}]
    BY DEF Init
  <1>5. TransactionConsistent
    BY DEF Init, TransactionConsistent
  <1> QED
    BY <1>1, <1>2, <1>3, <1>4, <1>5 DEF EngineInv, TypeOK

LEMMA NextEngineInv == EngineInv /\ [Next]_vars => EngineInv'
  <1> SUFFICES ASSUME EngineInv, [Next]_vars PROVE EngineInv'
    OBVIOUS
  <1> USE DEF EngineInv, TypeOK, TransactionConsistent, TransactionId, transaction
  <1>1. ASSUME NEW s \in State, SetInitialState(s) PROVE EngineInv'
    <2>1. initialized' = TRUE /\ businessState' \in State
      BY <1>1 DEF SetInitialState
    <2>2. UNCHANGED <<transaction, transactionCounter, lastProcessedSequence,
                      totalEventsProcessed, outcome, applied>>
      BY <1>1 DEF SetInitialState
    <2> QED
      BY <2>1, <2>2
  <1>2. ASSUME NEW batch \in Batch, ProcessEvents(batch) PROVE EngineInv'
    <2>1. businessState' \in State /\ initialized /\ initialized' = initialized
      BY <1>2 DEF ProcessEvents
    <2>2. lastProcessedSequence' \in 0..MaxSequence
      BY <1>2, BatchIsSequence DEF ProcessEvents
    <2>3. applied' \subseteq 1..MaxSequence
      BY <1>2, SequenceNumbersBounded DEF ProcessEvents
    <2>4. UNCHANGED <<transaction, transactionCounter, totalEventsProcessed,
                      outcome>>
      BY <1>2 DEF ProcessEvents
    <2> QED
      BY <2>1, <2>2, <2>3, <2>4
  <1>3. ASSUME NEW batch \in Batch, ProcessEventsFails(batch) PROVE EngineInv'
    BY <1>3, BatchIsSequence DEF ProcessEventsFails
  <1>4. ASSUME NEW batch \in Batch, Prepare(batch) PROVE EngineInv'
    BY <1>4 DEF Prepare, MayPrepare, Preparable
  <1>5. ASSUME NEW batch \in Batch, PrepareFails(batch) PROVE EngineInv'
    BY <1>5 DEF PrepareFails, MayPrepare
  <1>6. ASSUME NEW t \in TransactionId, Commit(t) PROVE EngineInv'
    <2>1. Len(preparedEvents) \in Nat
      BY BatchIsSequence
    <2>2. lastProcessedSequence' \in 0..MaxSequence
      BY <1>6, <2>1, BatchIsSequence DEF Commit
    <2>3. applied' \subseteq 1..MaxSequence
      BY <1>6, SequenceNumbersBounded DEF Commit
    <2>4. totalEventsProcessed' \in Nat
      BY <1>6, <2>1 DEF Commit
    <2>5. outcome' \in [TransactionId -> {"none", "committed", "aborted"}]
      BY <1>6 DEF Commit
    <2>6. TransactionConsistent'
      BY <1>6, <2>5 DEF Commit, EndTransaction
    <2>7. initialized' \in BOOLEAN
          /\ businessState' \in IF initialized' THEN State ELSE {NoState}
      BY <1>6 DEF Commit
    <2>8. /\ shadowState' \in State \cup {NoState}
          /\ preparedEvents' \in Batch
          /\ transactionState' \in {"IDLE", "PREPARED"}
          /\ currentTransactionId' \in 0..MaxTransactions
          /\ transactionCounter' \in 0..MaxTransactions
      BY <1>6, EmptyBatch DEF Commit, EndTransaction
    <2> QED
      BY <2>2, <2>3, <2>4, <2>5, <2>6, <2>7, <2>8
  <1>7. ASSUME NEW t \in TransactionId, Abort(t) PROVE EngineInv'
    BY <1>7, EmptyBatch DEF Abort, EndTransaction
  <1>8. CASE UNCHANGED vars
    BY <1>8 DEF vars
  <1> QED
    BY <1>1, <1>2, <1>3, <1>4, <1>5, <1>6, <1>7, <1>8 DEF Next, Decide

\* The engine's fields are well typed after any sequence of calls.
THEOREM EngineTypeCorrect == Spec => []TypeOK
  BY InitEngineInv, NextEngineInv, PTL DEF Spec, EngineInv

\* The transaction fields are consistent after any sequence of calls.
THEOREM EngineTransactionConsistent == Spec => []TransactionConsistent
  BY InitEngineInv, NextEngineInv, PTL DEF Spec, EngineInv

\* What a call does to the transaction: nothing, or Prepare opens one with an id
\* never seen, or Commit or Abort ends the one that is open.
LEMMA TransactionStep ==
  ASSUME EngineInv, [Next]_vars
  PROVE  \/ UNCHANGED <<transaction, outcome>>
         \/ /\ transactionState = "IDLE"
            /\ currentTransactionId' = transactionCounter + 1
            /\ outcome' = outcome
         \/ /\ transactionState = "PREPARED"
            /\ \E d \in {"committed", "aborted"} :
                 outcome' = [outcome EXCEPT ![currentTransactionId] = d]
            /\ transactionState' = "IDLE" /\ currentTransactionId' = 0
  <1> USE DEF transaction
  <1>1. ASSUME NEW s \in State, SetInitialState(s)
        PROVE  UNCHANGED <<transaction, outcome>>
    BY <1>1 DEF SetInitialState
  <1>2. ASSUME NEW batch \in Batch,
               ProcessEvents(batch) \/ ProcessEventsFails(batch) \/ PrepareFails(batch)
        PROVE  UNCHANGED <<transaction, outcome>>
    BY <1>2 DEF ProcessEvents, ProcessEventsFails, PrepareFails
  <1>3. ASSUME NEW batch \in Batch, Prepare(batch)
        PROVE  /\ transactionState = "IDLE"
               /\ currentTransactionId' = transactionCounter + 1
               /\ outcome' = outcome
    BY <1>3 DEF Prepare, MayPrepare
  <1>4. ASSUME NEW t \in TransactionId, Commit(t) \/ Abort(t)
        PROVE  /\ transactionState = "PREPARED"
               /\ \E d \in {"committed", "aborted"} :
                    outcome' = [outcome EXCEPT ![currentTransactionId] = d]
               /\ transactionState' = "IDLE" /\ currentTransactionId' = 0
    BY <1>4 DEF Commit, Abort, EndTransaction
  <1>5. CASE UNCHANGED vars
    BY <1>5 DEF vars
  <1> QED
    BY <1>1, <1>2, <1>3, <1>4, <1>5 DEF Next, Decide

\* A transaction id is decided once, and a decided one is never open again.
THEOREM EngineDecisionsFinal == Spec => DecisionsFinal
  <1> DEFINE Final == \A t \in TransactionId : outcome[t] # "none" =>
                        outcome'[t] = outcome[t] /\ currentTransactionId' # t
  <1>1. EngineInv /\ [Next]_vars => [Final]_vars
    <2> SUFFICES ASSUME EngineInv, [Next]_vars, NEW t \in TransactionId,
                        outcome[t] # "none"
                 PROVE  outcome'[t] = outcome[t] /\ currentTransactionId' # t
      OBVIOUS
    <2>1. /\ outcome \in [TransactionId -> {"none", "committed", "aborted"}]
          /\ t \in Nat \ {0} /\ transactionCounter \in Nat
          /\ currentTransactionId \in 0..MaxTransactions
          /\ transactionState \in {"IDLE", "PREPARED"}
      BY DEF EngineInv, TypeOK, TransactionId
    <2>2. t <= transactionCounter
      BY <2>1 DEF EngineInv, TransactionConsistent
    <2>3. currentTransactionId # t
      BY <2>1 DEF EngineInv, TransactionConsistent
    <2>4. CASE UNCHANGED <<transaction, outcome>>
      BY <2>3, <2>4 DEF transaction
    <2>5. CASE currentTransactionId' = transactionCounter + 1 /\ outcome' = outcome
      BY <2>1, <2>2, <2>5
    <2>6. CASE /\ \E d \in {"committed", "aborted"} :
                    outcome' = [outcome EXCEPT ![currentTransactionId] = d]
               /\ currentTransactionId' = 0
      BY <2>1, <2>3, <2>6
    <2> QED
      BY <2>4, <2>5, <2>6, TransactionStep
  <1> QED
    BY <1>1, InitEngineInv, NextEngineInv, PTL DEF Spec, DecisionsFinal

\* Nothing but the decision on its id touches a prepared transaction.
THEOREM EnginePreparedUntilDecided == Spec => PreparedUntilDecided
  <1> DEFINE Kept == transactionState = "PREPARED" =>
               \/ UNCHANGED transaction
               \/ /\ transactionState' = "IDLE"
                  /\ outcome'[currentTransactionId] # "none"
  <1>1. EngineInv /\ [Next]_vars => [Kept]_vars
    <2> SUFFICES ASSUME EngineInv, [Next]_vars, transactionState = "PREPARED"
                 PROVE  \/ UNCHANGED transaction
                        \/ /\ transactionState' = "IDLE"
                           /\ outcome'[currentTransactionId] # "none"
      OBVIOUS
    <2>1. /\ outcome \in [TransactionId -> {"none", "committed", "aborted"}]
          /\ currentTransactionId \in TransactionId
      BY DEF EngineInv, TypeOK, TransactionConsistent, TransactionId
    <2>2. ASSUME NEW d \in {"committed", "aborted"},
                 outcome' = [outcome EXCEPT ![currentTransactionId] = d]
          PROVE  outcome'[currentTransactionId] # "none"
      BY <2>1, <2>2
    <2> QED
      BY <2>2, TransactionStep
  <1> QED
    BY <1>1, InitEngineInv, NextEngineInv, PTL DEF Spec, PreparedUntilDecided

-----------------------------------------------------------------------------
(***************************************************************************)
(* The one call behind a last sequence number that names no applied event. *)
(***************************************************************************)
\* Callers whose ProcessEvents calls never have an event of theirs rejected.
NoBatchFails == [][\A batch \in Batch : ~ProcessEventsFails(batch)]_vars

LEMMA LastIsInBatch ==
  ASSUME NEW batch \in Batch, Len(batch) > 0
  PROVE  batch[Len(batch)].sequenceNumber \in SequenceNumbers(batch)
  <1>1. Len(batch) \in 1..Len(batch)
    BY BatchIsSequence
  <1> QED
    BY <1>1 DEF SequenceNumbers

LEMMA NextSequenceIsApplied ==
  ASSUME EngineInv, SequenceIsApplied, [Next]_vars,
         [\A batch \in Batch : ~ProcessEventsFails(batch)]_vars
  PROVE  SequenceIsApplied'
  <1> USE DEF SequenceIsApplied
  <1>1. CASE UNCHANGED <<applied, lastProcessedSequence>>
    BY <1>1
  <1>2. ASSUME NEW batch \in Batch, ProcessEvents(batch) PROVE SequenceIsApplied'
    BY <1>2, LastIsInBatch DEF ProcessEvents
  <1>3. ASSUME NEW t \in TransactionId, Commit(t) PROVE SequenceIsApplied'
    <2>1. preparedEvents \in Batch
      BY DEF EngineInv, TypeOK
    <2> QED
      BY <1>3, <2>1, LastIsInBatch DEF Commit
  <1>4. ASSUME NEW s \in State, SetInitialState(s)
        PROVE  UNCHANGED <<applied, lastProcessedSequence>>
    BY <1>4 DEF SetInitialState
  <1>5. ASSUME NEW batch \in Batch, Prepare(batch) \/ PrepareFails(batch)
        PROVE  UNCHANGED <<applied, lastProcessedSequence>>
    BY <1>5 DEF Prepare, PrepareFails
  <1>6. ASSUME NEW t \in TransactionId, Abort(t)
        PROVE  UNCHANGED <<applied, lastProcessedSequence>>
    BY <1>6 DEF Abort
  <1>7. CASE UNCHANGED vars
    BY <1>1, <1>7 DEF vars
  <1> QED
    BY <1>1, <1>2, <1>3, <1>4, <1>5, <1>6, <1>7 DEF Next, Decide

\* LastProcessedSequence names an applied event under any mix of ProcessEvents,
\* Prepare, Commit and Abort in which no ProcessEvents call fails half way: the
\* sequence number a failed batch leaves behind is the only way to lose it.
THEOREM EngineSequenceIsApplied == Spec /\ NoBatchFails => []SequenceIsApplied
  <1>1. Init => SequenceIsApplied
    BY DEF Init, SequenceIsApplied
  <1> QED
    BY <1>1, InitEngineInv, NextEngineInv, NextSequenceIsApplied, PTL
       DEF Spec, NoBatchFails

-----------------------------------------------------------------------------
(***************************************************************************)
(* The callers that use the two-phase calls in sequence order.             *)
(***************************************************************************)
LEMMA OrderedIsCalls == OrderedSpec => Spec
  <1>1. [OrderedNext]_vars => [Next]_vars
    BY DEF OrderedNext, Next
  <1> QED
    BY <1>1, PTL DEF OrderedSpec, Spec

\* Every sequence number of the prepared batch is above the last one applied,
\* and they rise within the batch: what Prepare checked is still true when the
\* transaction is committed.
PreparedInOrder == InOrder(preparedEvents, lastProcessedSequence)

OrderedInv == EngineInv /\ PreparedIsCurrent /\ PreparedInOrder

LEMMA InitOrderedInv == Init => OrderedInv
  <1> SUFFICES ASSUME Init PROVE OrderedInv
    OBVIOUS
  <1>1. EngineInv
    BY InitEngineInv
  <1>2. PreparedIsCurrent
    BY DEF Init, PreparedIsCurrent
  <1>3. PreparedInOrder
    BY EmptyBatch DEF Init, PreparedInOrder, InOrder
  <1> QED
    BY <1>1, <1>2, <1>3 DEF OrderedInv

LEMMA NextOrderedInv == OrderedInv /\ [OrderedNext]_vars => OrderedInv'
  <1> SUFFICES ASSUME OrderedInv, [OrderedNext]_vars PROVE OrderedInv'
    OBVIOUS
  <1>1. EngineInv'
    <2>1. [Next]_vars
      BY DEF OrderedNext, Next
    <2> QED
      BY <2>1, NextEngineInv DEF OrderedInv
  <1> USE DEF OrderedInv, PreparedIsCurrent, PreparedInOrder, transaction
  <1>2. ASSUME NEW s \in State, SetInitialState(s)
        PROVE  PreparedIsCurrent' /\ PreparedInOrder'
    BY <1>2 DEF SetInitialState, EngineInv, TransactionConsistent, TypeOK
  <1>3. ASSUME NEW batch \in Batch, InOrder(batch, 0), Prepare(batch)
        PROVE  PreparedIsCurrent' /\ PreparedInOrder'
    BY <1>3 DEF Prepare, MayPrepare, InOrder
  <1>4. ASSUME NEW batch \in Batch, PrepareFails(batch)
        PROVE  PreparedIsCurrent' /\ PreparedInOrder'
    BY <1>4 DEF PrepareFails
  <1>5. ASSUME NEW t \in TransactionId, Commit(t) \/ Abort(t)
        PROVE  PreparedIsCurrent' /\ PreparedInOrder'
    <2>1. transactionState' = "IDLE" /\ preparedEvents' = <<>>
      BY <1>5 DEF Commit, Abort, EndTransaction
    <2> QED
      BY <2>1, EmptyBatch DEF InOrder
  <1>6. CASE UNCHANGED vars
    <2>1. UNCHANGED <<transactionState, shadowState, preparedEvents,
                      businessState, lastProcessedSequence>>
      BY <1>6 DEF vars
    <2> QED
      BY <1>1, <2>1
  <1> QED
    BY <1>1, <1>2, <1>3, <1>4, <1>5, <1>6 DEF OrderedNext, Decide

\* With two-phase callers a prepared batch is always the effect of its events
\* on the current state.
THEOREM PreparedStaysCurrent == OrderedSpec => []PreparedIsCurrent
  BY InitOrderedInv, NextOrderedInv, PTL DEF OrderedSpec, OrderedInv

\* What was applied is not above the number the idempotency check compares with.
AppliedBelowLast == \A n \in applied : n <= lastProcessedSequence

LEMMA NextAppliedBelowLast ==
  ASSUME OrderedInv, AppliedBelowLast, [OrderedNext]_vars
  PROVE  AppliedBelowLast'
  <1> USE DEF AppliedBelowLast
  <1>0. /\ preparedEvents \in Batch /\ applied \subseteq 1..MaxSequence
        /\ lastProcessedSequence \in 0..MaxSequence
    BY DEF OrderedInv, EngineInv, TypeOK
  <1>1. ASSUME NEW t \in TransactionId, Commit(t) PROVE AppliedBelowLast'
    <2>1. CASE Len(preparedEvents) = 0
      BY <1>1, <2>1 DEF Commit, SequenceNumbers
    <2>2. CASE Len(preparedEvents) > 0
      <3> DEFINE last == preparedEvents[Len(preparedEvents)].sequenceNumber
      <3>1. /\ Len(preparedEvents) \in 1..Len(preparedEvents)
            /\ last \in Nat /\ last > lastProcessedSequence
        BY <1>0, <2>2, BatchIsSequence DEF OrderedInv, PreparedInOrder, InOrder
      <3>2. ASSUME NEW i \in 1..Len(preparedEvents)
            PROVE  preparedEvents[i].sequenceNumber <= last
        <4>1. preparedEvents[i].sequenceNumber \in Nat /\ Len(preparedEvents) \in Nat
          BY <1>0, BatchIsSequence
        <4>2. CASE i = Len(preparedEvents)
          BY <4>1, <4>2
        <4>3. CASE i < Len(preparedEvents)
          BY <3>1, <4>1, <4>3 DEF OrderedInv, PreparedInOrder, InOrder
        <4> QED
          BY <4>1, <4>2, <4>3
      <3>3. /\ lastProcessedSequence' = last
            /\ applied' = applied \cup SequenceNumbers(preparedEvents)
        BY <1>1, <2>2 DEF Commit
      <3> QED
        BY <1>0, <3>1, <3>2, <3>3 DEF SequenceNumbers
    <2> QED
      BY <1>0, <2>1, <2>2, BatchIsSequence
  <1>2. CASE UNCHANGED <<applied, lastProcessedSequence>>
    BY <1>2
  <1>3. ASSUME NEW s \in State, SetInitialState(s)
        PROVE  UNCHANGED <<applied, lastProcessedSequence>>
    BY <1>3 DEF SetInitialState
  <1>4. ASSUME NEW batch \in Batch, Prepare(batch) \/ PrepareFails(batch)
        PROVE  UNCHANGED <<applied, lastProcessedSequence>>
    BY <1>4 DEF Prepare, PrepareFails
  <1>5. ASSUME NEW t \in TransactionId, Abort(t)
        PROVE  UNCHANGED <<applied, lastProcessedSequence>>
    BY <1>5 DEF Abort
  <1>6. CASE UNCHANGED vars
    BY <1>2, <1>6 DEF vars
  <1> QED
    BY <1>1, <1>2, <1>3, <1>4, <1>5, <1>6 DEF OrderedNext, Decide

\* With two-phase callers a commit applies no sequence number a second time.
THEOREM OrderedNoReapplication == OrderedSpec => NoReapplication
  <1> DEFINE Fresh == \A t \in TransactionId : Commit(t) =>
               /\ SequenceNumbers(preparedEvents) \cap applied = {}
               /\ \A i, j \in 1..Len(preparedEvents) : i # j =>
                    preparedEvents[i].sequenceNumber
                      # preparedEvents[j].sequenceNumber
  <1>1. Init => AppliedBelowLast
    BY DEF Init, AppliedBelowLast
  <1>2. OrderedInv /\ AppliedBelowLast /\ [OrderedNext]_vars => AppliedBelowLast'
    BY NextAppliedBelowLast
  <1>3. OrderedInv /\ AppliedBelowLast /\ [OrderedNext]_vars => [Fresh]_vars
    <2> SUFFICES ASSUME OrderedInv, AppliedBelowLast PROVE Fresh
      OBVIOUS
    <2>1. /\ preparedEvents \in Batch /\ applied \subseteq 1..MaxSequence
          /\ lastProcessedSequence \in 0..MaxSequence
      BY DEF OrderedInv, EngineInv, TypeOK
    <2>2. \A i \in 1..Len(preparedEvents) :
            /\ i \in Nat /\ preparedEvents[i].sequenceNumber \in Nat
            /\ preparedEvents[i].sequenceNumber > lastProcessedSequence
      BY <2>1, BatchIsSequence DEF OrderedInv, PreparedInOrder, InOrder
    <2>3. SequenceNumbers(preparedEvents) \cap applied = {}
      BY <2>1, <2>2 DEF SequenceNumbers, AppliedBelowLast
    <2>4. ASSUME NEW i \in 1..Len(preparedEvents), NEW j \in 1..Len(preparedEvents),
                 i # j
          PROVE  preparedEvents[i].sequenceNumber # preparedEvents[j].sequenceNumber
      <3>1. i < j \/ j < i
        BY <2>4
      <3> QED
        BY <2>2, <3>1 DEF OrderedInv, PreparedInOrder, InOrder
    <2> QED
      BY <2>3, <2>4
  <1> QED
    BY <1>1, <1>2, <1>3, InitOrderedInv, NextOrderedInv, PTL
       DEF OrderedSpec, NoReapplication

-----------------------------------------------------------------------------
(***************************************************************************)
(* The refinement.  Prepare, Abort and the failing calls leave the state   *)
(* and the last sequence number alone, Commit applies the prepared batch.  *)
(***************************************************************************)
LEMMA SameOperators ==
  /\ Atomic!Batch = Batch
  /\ \A batch, s : Atomic!Projected(batch, s) = Projected(batch, s)
  /\ \A batch, n : Atomic!InOrder(batch, n) = InOrder(batch, n)
  <1>1. Atomic!Batch = Batch
    BY DEF Batch, Atomic!Batch, Envelope, Atomic!Envelope
  <1>2. ASSUME NEW batch, NEW s
        PROVE  Atomic!Projected(batch, s) = Projected(batch, s)
    BY DEF Projected, Running, Atomic!Projected, Atomic!Running
  <1>3. ASSUME NEW batch, NEW n
        PROVE  Atomic!InOrder(batch, n) = InOrder(batch, n)
    BY DEF InOrder, Atomic!InOrder
  <1> QED
    BY <1>1, <1>2, <1>3

LEMMA CommitApplies ==
  ASSUME OrderedInv, NEW t \in TransactionId, Commit(t)
  PROVE  [Atomic!Next]_(Atomic!vars)
  <1>1. /\ businessState \in State
        /\ preparedEvents \in Batch
        /\ shadowState \in State
        /\ shadowState = Projected(preparedEvents, businessState)
    BY DEF Commit, OrderedInv, EngineInv, TypeOK, TransactionConsistent,
           PreparedIsCurrent
  <1>2. CASE Len(preparedEvents) > 0
    <2>1. /\ businessState' = shadowState
          /\ lastProcessedSequence' =
               preparedEvents[Len(preparedEvents)].sequenceNumber
      BY <1>2 DEF Commit
    <2>2. Atomic!InOrder(preparedEvents, lastProcessedSequence)
      BY SameOperators DEF OrderedInv, PreparedInOrder
    <2>3. Atomic!Projected(preparedEvents, businessState) = shadowState
      BY <1>1, SameOperators
    <2>4. Atomic!Apply(preparedEvents)
      BY <1>1, <1>2, <2>1, <2>2, <2>3 DEF Atomic!Apply
    <2> QED
      BY <1>1, <2>4, SameOperators DEF Atomic!Next
  <1>3. CASE ~(Len(preparedEvents) > 0)
    <2>1. Len(preparedEvents) = 0 /\ preparedEvents \in Seq(Envelope)
      BY <1>1, <1>3, BatchIsSequence
    <2>2. shadowState = businessState
      BY <1>1, <2>1 DEF Projected
    <2> QED
      BY <1>3, <2>2 DEF Commit, Atomic!vars
  <1> QED
    BY <1>2, <1>3

\* A caller of Prepare, Commit and Abort with ordered batches drives an engine
\* that applies each batch atomically, in order and never twice.
THEOREM OrderedImplementsAtomic == OrderedSpec => ImplementsAtomicEngine
  <1>1. Init => Atomic!Init
    BY DEF Init, Atomic!Init
  <1>2. OrderedInv /\ [OrderedNext]_vars => [Atomic!Next]_(Atomic!vars)
    <2> SUFFICES ASSUME OrderedInv, [OrderedNext]_vars
                 PROVE  [Atomic!Next]_(Atomic!vars)
      OBVIOUS
    <2>1. ASSUME NEW s \in State, SetInitialState(s)
          PROVE  Atomic!Start
      BY <2>1 DEF SetInitialState, Atomic!Start, OrderedInv, EngineInv, TypeOK
    <2>2. ASSUME NEW batch \in Batch, Prepare(batch) \/ PrepareFails(batch)
          PROVE  UNCHANGED Atomic!vars
      BY <2>2 DEF Prepare, PrepareFails, Atomic!vars
    <2>3. ASSUME NEW t \in TransactionId, Abort(t)
          PROVE  UNCHANGED Atomic!vars
      BY <2>3 DEF Abort, Atomic!vars
    <2>4. CASE UNCHANGED vars
      BY <2>4 DEF vars, Atomic!vars
    <2> QED
      BY <2>1, <2>2, <2>3, <2>4, CommitApplies
         DEF OrderedNext, Decide, Atomic!Next
  <1>3. OrderedSpec => []OrderedInv
    BY InitOrderedInv, NextOrderedInv, PTL DEF OrderedSpec
  <1> QED
    BY <1>1, <1>2, <1>3, PTL DEF OrderedSpec, ImplementsAtomicEngine, Atomic!Spec

=============================================================================
