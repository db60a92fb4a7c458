------------------------------ MODULE Idempotency ------------------------------
(***************************************************************************)
(* pkg/entityworkflows/state/idempotency.go: which requests are taken for  *)
(* processed.  Times are naturals, 0 is Go's zero time; the map of         *)
(* processed requests is a function that is 0 on the keys it does not      *)
(* hold.  WorkflowState has the same methods with the same bodies, and     *)
(* they are modelled once.                                                 *)
(***************************************************************************)
EXTENDS FiniteSetsExt, Naturals

CONSTANTS
  Key,   \* idempotency keys, the empty one excluded
  NoKey  \* the empty key

ASSUME IdempotencyAssumption == NoKey \notin Key

NoneProcessed == [k \in Key |-> 0]

NewIdempotencyChecker(cutoff) ==
  [processedRequests |-> NoneProcessed, idempotencyCutoff |-> cutoff]

\* The cutoff is inclusive; nothing is known of a request without a key.
IsRequestProcessed(ic, k, requestTime) ==
  /\ k # NoKey
  /\ \/ requestTime <= ic.idempotencyCutoff
     \/ ic.processedRequests[k] # 0

MarkRequestProcessed(ic, k, now) ==
  IF k = NoKey THEN ic ELSE [ic EXCEPT !.processedRequests[k] = now]

\* The newest time a request was processed at, the zero time if none was.
GetCutoffForContinuation(ic) ==
  Max({0} \cup {ic.processedRequests[k] : k \in Key})
===============================================================================
