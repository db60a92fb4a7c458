------------------------------ MODULE BaseEngine ------------------------------
(***************************************************************************)
(* pkg/engines/base_engine.go: the state of one BaseEngine and the calls   *)
(* that change it.  The engine takes no lock and expects one caller at a   *)
(* time, so a call is one step.  A call that returns an error and changes  *)
(* nothing is a stuttering step and has no action; the calls that return   *)
(* an error and still change the engine have one each.                     *)
(***************************************************************************)
EXTENDS EngineEvents

CONSTANTS
  NoState,        \* the nil state, before SetInitialState and outside 2PC
  MaxTransactions \* bound: transaction ids the engine hands out

ASSUME EngineAssumption ==
  /\ NoState \notin State
  /\ MaxTransactions \in Nat \ {0}

VARIABLES
  initialized,           \* baseEngineState.Initialized
  businessState,         \* the state GetCurrentState returns
  shadowState,           \* projected state of the prepared transaction
  preparedEvents,        \* the prepared batch, <<>> for nil
  transactionState,      \* IDLE or PREPARED, the values a call leaves behind
  currentTransactionId,  \* 0 for none
  transactionCounter,    \* the last id handed out
  lastProcessedSequence, \* what the idempotency check compares with
  totalEventsProcessed,  \* statistics, maintained by Commit only
  outcome,               \* history: what became of each transaction id
  applied                \* history: sequence numbers applied to businessState

transaction == <<shadowState, preparedEvents, transactionState,
                 currentTransactionId>>
vars == <<initialized, businessState, transaction, transactionCounter,
          lastProcessedSequence, totalEventsProcessed, outcome, applied>>

TransactionId == 1..MaxTransactions

-------------------------------------------------------------------------------
Init ==
  /\ initialized = FALSE
  /\ businessState = NoState
  /\ shadowState = NoState
  /\ preparedEvents = <<>>
  /\ transactionState = "IDLE"
  /\ currentTransactionId = 0
  /\ transactionCounter = 0
  /\ lastProcessedSequence = 0
  /\ totalEventsProcessed = 0
  /\ outcome = [t \in TransactionId |-> "none"]
  /\ applied = {}

\* s is the given state with the business defaults applied; one that fails
\* validation is refused and leaves the engine uninitialized.
SetInitialState(s) ==
  /\ ~initialized
  /\ initialized' = TRUE
  /\ businessState' = s
  /\ UNCHANGED <<transaction, transactionCounter, lastProcessedSequence,
                 totalEventsProcessed, outcome, applied>>

\* Slip: the state of a rejected batch is installed without validateState.
ProcessEventsUnvalidated(batch) ==
  /\ Len(batch) > 0
  /\ initialized
  /\ businessState' = Projected(batch, businessState)
  /\ lastProcessedSequence' = batch[Len(batch)].sequenceNumber
  /\ UNCHANGED <<initialized, transaction, transactionCounter,
                 totalEventsProcessed, outcome, applied>>

\* ProcessEvents on a batch every event of which is accepted.  It looks at
\* neither the transaction state nor the sequence numbers.
ProcessEvents(batch) ==
  /\ Len(batch) > 0
  /\ initialized
  /\ Projected(batch, businessState) \in State
  /\ businessState' = Projected(batch, businessState)
  /\ lastProcessedSequence' = batch[Len(batch)].sequenceNumber
  /\ applied' = applied \cup SequenceNumbers(batch)
  /\ UNCHANGED <<initialized, transaction, transactionCounter,
                 totalEventsProcessed, outcome>>

\* ProcessEvents on a batch one event of which is rejected: the state is what
\* it was, the sequence number of the last event that succeeded stays behind.
ProcessEventsFails(batch) ==
  /\ initialized
  /\ \E n \in 1..Len(batch) :
       /\ FailsAfter(n, batch, businessState)
       /\ lastProcessedSequence' = batch[n].sequenceNumber
  /\ UNCHANGED <<initialized, businessState, transaction, transactionCounter,
                 totalEventsProcessed, outcome, applied>>

\* Slips: no look at the transaction in progress; an off-by-one in the check
\* against the last processed sequence number.
MayPrepareAgain(batch) ==
  /\ initialized
  /\ \A i \in 1..Len(batch) :
       batch[i].sequenceNumber > lastProcessedSequence
  /\ transactionCounter < MaxTransactions

MayPrepareLast(batch) ==
  /\ initialized
  /\ transactionState = "IDLE"
  /\ \A i \in 1..Len(batch) :
       batch[i].sequenceNumber >= lastProcessedSequence
  /\ transactionCounter < MaxTransactions

\* The checks Prepare makes before it takes a transaction id.
MayPrepare(batch) ==
  /\ initialized
  /\ transactionState = "IDLE"
  /\ \A i \in 1..Len(batch) :
       /\ batch[i].event \notin InvalidEvent
       /\ batch[i].sequenceNumber > lastProcessedSequence
  /\ transactionCounter < MaxTransactions

\* The processor accepts the batch, its transition infos included.
Preparable(batch) ==
  /\ Projected(batch, businessState) \in State
  /\ \A i \in 1..Len(batch) :
       <<Running(batch, businessState)[i - 1], batch[i].event>>
         \notin BadTransition

\* Slips: the id is taken without counting it; the batch is applied in place.
PrepareUncounted(batch) ==
  /\ MayPrepare(batch)
  /\ Preparable(batch)
  /\ shadowState' = Projected(batch, businessState)
  /\ preparedEvents' = batch
  /\ transactionState' = "PREPARED"
  /\ currentTransactionId' = transactionCounter + 1
  /\ UNCHANGED <<initialized, businessState, transactionCounter,
                 lastProcessedSequence, totalEventsProcessed, outcome, applied>>

PrepareInPlace(batch) ==
  /\ MayPrepare(batch)
  /\ Preparable(batch)
  /\ transactionCounter' = transactionCounter + 1
  /\ businessState' = Projected(batch, businessState)
  /\ shadowState' = Projected(batch, businessState)
  /\ preparedEvents' = batch
  /\ transactionState' = "PREPARED"
  /\ currentTransactionId' = transactionCounter + 1
  /\ UNCHANGED <<initialized, lastProcessedSequence, totalEventsProcessed,
                 outcome, applied>>

Prepare(batch) ==
  /\ MayPrepare(batch)
  /\ Preparable(batch)
  /\ transactionCounter' = transactionCounter + 1
  /\ shadowState' = Projected(batch, businessState)
  /\ preparedEvents' = batch
  /\ transactionState' = "PREPARED"
  /\ currentTransactionId' = transactionCounter + 1
  /\ UNCHANGED <<initialized, businessState, lastProcessedSequence,
                 totalEventsProcessed, outcome, applied>>

\* The id is taken before the processor runs, so a refused batch burns one.
PrepareFails(batch) ==
  /\ MayPrepare(batch)
  /\ ~Preparable(batch)
  /\ transactionCounter' = transactionCounter + 1
  /\ UNCHANGED <<initialized, businessState, transaction,
                 lastProcessedSequence, totalEventsProcessed, outcome, applied>>

\* Slips: the id, or the whole prepared transaction, survives its end.
EndTransactionKeepsId ==
  /\ shadowState' = NoState
  /\ preparedEvents' = <<>>
  /\ transactionState' = "IDLE"
  /\ UNCHANGED currentTransactionId

EndTransactionNever == UNCHANGED transaction

\* Both phase-2 calls end a transaction the same way.
EndTransaction ==
  /\ shadowState' = NoState
  /\ preparedEvents' = <<>>
  /\ transactionState' = "IDLE"
  /\ currentTransactionId' = 0

Commit(t) ==
  /\ transactionState = "PREPARED"
  /\ currentTransactionId = t
  /\ businessState' = shadowState
  /\ lastProcessedSequence' =
       IF Len(preparedEvents) > 0
       THEN preparedEvents[Len(preparedEvents)].sequenceNumber
       ELSE lastProcessedSequence
  /\ totalEventsProcessed' = totalEventsProcessed + Len(preparedEvents)
  /\ EndTransaction
  /\ outcome' = [outcome EXCEPT ![t] = "committed"]
  /\ applied' = applied \cup SequenceNumbers(preparedEvents)
  /\ UNCHANGED <<initialized, transactionCounter>>

Abort(t) ==
  /\ transactionState = "PREPARED"
  /\ currentTransactionId = t
  /\ EndTransaction
  /\ outcome' = [outcome EXCEPT ![t] = "aborted"]
  /\ UNCHANGED <<initialized, businessState, transactionCounter,
                 lastProcessedSequence, totalEventsProcessed, applied>>

-------------------------------------------------------------------------------
Decide == \E t \in TransactionId : Commit(t) \/ Abort(t)

\* Any caller, any order of calls.
Next ==
  \/ \E s \in State : SetInitialState(s)
  \/ \E batch \in Batch : \/ ProcessEvents(batch)
                          \/ ProcessEventsFails(batch)
                          \/ Prepare(batch)
                          \/ PrepareFails(batch)
  \/ Decide

Spec == Init /\ [][Next]_vars

\* A caller that only uses the two-phase calls, with batches in the order of their
\* sequence numbers.
OrderedNext ==
  \/ \E s \in State : SetInitialState(s)
  \/ \E batch \in Batch : /\ InOrder(batch, 0)
                          /\ Prepare(batch) \/ PrepareFails(batch)
  \/ Decide

OrderedSpec == Init /\ [][OrderedNext]_vars

-------------------------------------------------------------------------------
(***************************************************************************)
(* Correctness.                                                            *)
(***************************************************************************)

\* The type invariant: fields of the struct hold what the code can store.
TypeOK ==
  /\ initialized \in BOOLEAN
  /\ businessState \in IF initialized THEN State ELSE {NoState}
  /\ shadowState \in State \cup {NoState}
  /\ preparedEvents \in Batch
  /\ transactionState \in {"IDLE", "PREPARED"}
  /\ currentTransactionId \in 0..MaxTransactions
  /\ transactionCounter \in 0..MaxTransactions
  /\ lastProcessedSequence \in 0..MaxSequence
  /\ totalEventsProcessed \in Nat
  /\ outcome \in [TransactionId -> {"none", "committed", "aborted"}]
  /\ applied \subseteq 1..MaxSequence

\* The four transaction fields of the engine are set and cleared together,
\* and the open transaction has an id handed out before and not yet decided;
\* in particular a late Commit or Abort of an earlier id finds nothing to act
\* on (Prepare, Commit and Abort).
TransactionConsistent ==
  /\ transactionState = "PREPARED" =>
       /\ initialized
       /\ shadowState \in State
       /\ currentTransactionId \in 1..transactionCounter
       /\ outcome[currentTransactionId] = "none"
  /\ transactionState = "IDLE" =>
       /\ shadowState = NoState
       /\ preparedEvents = <<>>
       /\ currentTransactionId = 0
  /\ \A t \in TransactionId : t > transactionCounter => outcome[t] = "none"

\* A transaction id is decided once: whatever is prepared, committed or
\* aborted later, an id is never reused for another outcome (Commit, Abort).
DecisionsFinal ==
  [][\A t \in TransactionId : outcome[t] # "none" =>
        outcome'[t] = outcome[t] /\ currentTransactionId' # t]_vars

\* Between Prepare and the Commit or Abort of its id no call, not even a second
\* Prepare or a ProcessEvents, touches what was prepared (Prepare's check of
\* TransactionState).
PreparedUntilDecided ==
  [][transactionState = "PREPARED" =>
       \/ UNCHANGED transaction
       \/ /\ transactionState' = "IDLE"
          /\ outcome'[currentTransactionId] # "none"]_vars

\* What is prepared is the effect of the prepared events on the state as it is
\* now, so that the commit loses nothing.  It holds for a caller that does not call
\* ProcessEvents between Prepare and Commit, which does not look at the
\* transaction.
PreparedIsCurrent ==
  transactionState = "PREPARED" =>
    shadowState = Projected(preparedEvents, businessState)

\* A commit never applies an event whose sequence number was applied before,
\* nor one number twice in a batch (the idempotency check of Prepare).
NoReapplication ==
  [][\A t \in TransactionId : Commit(t) =>
       /\ SequenceNumbers(preparedEvents) \cap applied = {}
       /\ \A i, j \in 1..Len(preparedEvents) : i # j =>
            preparedEvents[i].sequenceNumber
              # preparedEvents[j].sequenceNumber]_vars

\* LastProcessedSequence names an event that was applied.  It would follow from
\* "ProcessEvents processes a batch of events atomically".
SequenceIsApplied ==
  lastProcessedSequence # 0 => lastProcessedSequence \in applied

\* A caller that prepares ordered batches and commits or aborts them sees an
\* engine that applies each batch at once, in order and never twice: Commit is
\* the atomic step, everything else is invisible.
Atomic == INSTANCE AtomicEngine
            WITH state <- businessState, last <- lastProcessedSequence

ImplementsAtomicEngine == Atomic!Spec
===============================================================================
