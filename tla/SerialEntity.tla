----------------------------- MODULE SerialEntity -----------------------------
(***************************************************************************)
(* What an entity promises its clients: updates are applied one at a time, *)
(* each at most once under its idempotency key, and the state holds what   *)
(* was acknowledged.                                                       *)
(***************************************************************************)
EXTENDS Sequences

CONSTANTS Update, key, NoKey

VARIABLES
  state,        \* the updates applied so far, in order
  acknowledged  \* the updates clients were told were applied

vars == <<state, acknowledged>>

Init ==
  /\ state = <<>>
  /\ acknowledged = {}

Apply(u) ==
  /\ \A v \in acknowledged : key[v] = key[u] => key[u] = NoKey /\ v # u
  /\ state' = Append(state, u)
  /\ acknowledged' = acknowledged \cup {u}

Next == \E u \in Update : Apply(u)

Spec == Init /\ [][Next]_vars
===============================================================================
