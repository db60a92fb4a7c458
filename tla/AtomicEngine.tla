----------------------------- MODULE AtomicEngine -----------------------------
(***************************************************************************)
(* What the Engine interface promises the code that drives it with Prepare *)
(* and Commit (pkg/engines/engine.go): a state to which whole batches are  *)
(* applied, each by one indivisible step, in the order of their sequence   *)
(* numbers and never twice.  There is no transaction here at all.          *)
(***************************************************************************)
EXTENDS EngineEvents

CONSTANT NoState \* the state of an engine that was never given one

VARIABLES
  state, \* the state a caller can read, NoState before SetInitialState
  last   \* the sequence number of the last event applied, 0 if none

vars == <<state, last>>

Init == state = NoState /\ last = 0

Start == state = NoState /\ state' \in State /\ last' = last

Apply(batch) ==
  /\ state \in State
  /\ Len(batch) > 0
  /\ InOrder(batch, last)
  /\ Projected(batch, state) \in State
  /\ state' = Projected(batch, state)
  /\ last' = batch[Len(batch)].sequenceNumber

Next == Start \/ \E batch \in Batch : Apply(batch)

Spec == Init /\ [][Next]_vars
===============================================================================
