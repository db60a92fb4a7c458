----------------------------- MODULE WorkflowState -----------------------------
(***************************************************************************)
(* pkg/entityworkflows/state/workflow_state.go: the bookkeeping an entity  *)
(* workflow carries through a run and hands to the next one.  It is an     *)
(* idempotency checker, with counters and the owner of the entity.         *)
(***************************************************************************)
EXTENDS Idempotency, Authorization

CONSTANT RequestsBeforeCAN  \* threshold for continue-as-new, 1000 in the code

ASSUME WorkflowStateAssumption == RequestsBeforeCAN \in Nat \ {0}

NewWorkflowStateForContinuation(cutoff, sequence, metadata) ==
  [requestCount |-> 0, pendingUpdates |-> 0, processedRequests |-> NoneProcessed,
   requestsBeforeCAN |-> RequestsBeforeCAN, idempotencyCutoff |-> cutoff,
   sequenceNumber |-> sequence, entityMetadata |-> metadata]

NewWorkflowState(cutoff) ==
  NewWorkflowStateForContinuation(cutoff, 0, NoMetadata)

\* What becomes of a workflow state in the JSON of the next run's parameters:
\* every field is unexported, so "{}" is written and the zero value is read.
Transported(ws) ==
  [requestCount |-> 0, pendingUpdates |-> 0, processedRequests |-> NoneProcessed,
   requestsBeforeCAN |-> 0, idempotencyCutoff |-> 0,
   sequenceNumber |-> 0, entityMetadata |-> NoMetadata]

ShouldContinueAsNew(ws, suggested) ==
  suggested \/ ws.requestCount >= ws.requestsBeforeCAN

\* Slip: the request is counted without taking a sequence number.
CountedUnnumbered(ws) ==
  [ws EXCEPT !.requestCount = @ + 1, !.pendingUpdates = @ + 1]

\* A request is let in: counted, pending, and given a sequence number.
Counted(ws) ==
  [ws EXCEPT !.requestCount = @ + 1, !.pendingUpdates = @ + 1,
             !.sequenceNumber = @ + 1]

DecrementPendingUpdates(ws) == [ws EXCEPT !.pendingUpdates = @ - 1]

SetEntityMetadata(ws, metadata) == [ws EXCEPT !.entityMetadata = metadata]
===============================================================================
