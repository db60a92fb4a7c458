----------------------------- MODULE EngineEvents -----------------------------
(***************************************************************************)
(* What every engine call is given: event envelopes, batches of them, and  *)
(* the pure functions the engine is configured with (pkg/engines/engine.go *)
(* ProcessorFunc and DefaultsFunc).  The protobuf payloads are abstracted  *)
(* to the members of Event and State; what protovalidate refuses is the    *)
(* subset InvalidEvent for events and the value Rejected for states, which *)
(* also stands for a processor that returns an error.                      *)
(***************************************************************************)
EXTENDS Integers, Sequences

CONSTANTS
  State,         \* the business states that pass validateState
  Event,         \* the event payloads a caller can send
  InvalidEvent,  \* those of them that ValidateEventData refuses
  BadTransition, \* <<state, event>> whose transition info fails validation
  Rejected,      \* processor error, or a new state that fails validation
  Processor,     \* the ProcessorFunc, a pure function of state and event
  MaxSequence,   \* bound: largest sequence number a caller uses
  MaxBatch       \* bound: largest number of events in one call

ASSUME EventsAssumption ==
  /\ Rejected \notin State
  /\ InvalidEvent \subseteq Event
  /\ BadTransition \subseteq State \X Event
  /\ Processor \in [State \X Event -> State \cup {Rejected}]
  /\ MaxSequence \in Nat \ {0}
  /\ MaxBatch \in Nat \ {0}

\* The part of an EventEnvelope the engine looks at.
Envelope == [sequenceNumber : 1..MaxSequence, event : Event]

\* The slices of envelopes a caller can pass, the empty one included.
Batch == UNION {[1..n -> Envelope] : n \in 0..MaxBatch}

\* Running(batch, s)[i] is the state after the first i events of batch; once
\* an event is rejected the loop has returned and no later state exists.
Running(batch, s) ==
  LET run[i \in 0..Len(batch)] ==
        IF i = 0 THEN s
        ELSE IF run[i - 1] \in State
             THEN Processor[run[i - 1], batch[i].event]
             ELSE Rejected
  IN  run

\* The state after the whole batch, or Rejected.
Projected(batch, s) ==
  IF Len(batch) = 0 THEN s ELSE Running(batch, s)[Len(batch)]

\* The first n events of batch succeed and the next one is rejected.
FailsAfter(n, batch, s) ==
  /\ n < Len(batch)
  /\ \A i \in 0..n : Running(batch, s)[i] \in State
  /\ Running(batch, s)[n + 1] \notin State

SequenceNumbers(batch) == {batch[i].sequenceNumber : i \in 1..Len(batch)}

\* The sequence numbers of batch rise strictly, from above last.
InOrder(batch, last) ==
  /\ \A i \in 1..Len(batch) : batch[i].sequenceNumber > last
  /\ \A i, j \in 1..Len(batch) :
       i < j => batch[i].sequenceNumber < batch[j].sequenceNumber
===============================================================================
